---- MODULE Spec2Model ----
(***************************************************************************)
(* A model of the SearchFace frontend (Next.js / React):                   *)
(*   - the age-verification gate (cookie library, server actions,          *)
(*     provider and modal components, root layout)           -- SpecGate   *)
(*   - the upload widget, the search action and the client error           *)
(*     taxonomy                                              -- SpecUpload *)
(*   - the read-access functions and the result page         -- SpecRead   *)
(*   - the sessionStorage helper                             -- SpecStorage*)
(*   - the person directory                              -- SpecDirectory*)
(*   - the ranking ledger (schema and bump_ranking)      -- SpecRanking  *)
(* and of the stale-artifact cleanup script               -- SpecCleanup  *)
(* and the empty-directory cleanup script                 -- SpecSweep    *)
(* The Japanese copy of the source is written as English strings, one      *)
(* distinct string for each distinct message.  An error thrown by a server *)
(* action reaches the client with its message, as it does under test and   *)
(* in development.                                                         *)
(***************************************************************************)
EXTENDS Integers, Sequences, FiniteSets, TLC

VARIABLES
    \* ---- age-verification gate -------------------------------------
    cookie,         \* the browser's age_verified cookie: [present, value, expires]
    now,            \* wall-clock time in seconds
    page,           \* what the browser shows: "none", "site" or "external"
    ageVerified,    \* RootLayout: the value of isAgeVerified() of the current page
    showModal,      \* AgeVerificationProvider: useState(!isAgeVerified)
    isPending,      \* AgeVerificationProvider: useTransition()
    isVisible,      \* AgeVerificationModal: useState(false)
    effectQueued,   \* AgeVerificationModal: the [isOpen] effect is scheduled
    inflight,       \* server action requested and not settled: "none", "confirm", "decline"
    orphaned,       \* the page that requested the action in flight was replaced
    declineResult,  \* completion of the last declineAgeVerification() call
    confirmResult,  \* completion of the last confirmAgeVerification() call
    gateLog,        \* history: what is known of the last confirm / decline / page load
    \* ---- upload widget, search action, error taxonomy ---------------
    selectedImage,      \* ImageUploadZone: useState<File | null>(null)
    previewUrl,         \* ImageUploadZone: useState<string | null>(null)
    isSearching,        \* ImageUploadZone: useState(false)
    isDragOver,         \* ImageUploadZone: useState(false)
    isPasteSupported,   \* ImageUploadZone: useState(false)
    clipboardApi,       \* the browser has navigator.clipboard.read
    supportChecked,     \* the mount effect checkClipboardSupport has run
    pastePending,       \* handleClipboardPaste awaits navigator.clipboard.read()
    request,            \* the file searchImage was called with and has not settled
    lastToasts,         \* the toasts raised by the handler that ran last
    lastOffer,          \* the file the last picker / drop / paste gesture offered
    lastFetched,        \* what fetch() gave the searchImage call that settled last
    lastDone,           \* how that searchImage call completed
    route,              \* router.push target
    classified,         \* getErrorMessage / getErrorType applied to a code
    \* the read-access layer and the result page
    readCall,           \* the read-access function called last, and what fetch() gave it
    readResult,         \* how that call completed
    display,            \* what the result page rendered from it
    \* ---- sessionStorage helper ---------------------------------------
    storage,            \* the item under SEARCH_RESULTS_KEY: [present, text]
    storageAccess,      \* whether the browser lets this tab use sessionStorage
    storageOp,          \* the helper called last, what it found and how it completed
    consumed,           \* a read-and-clear returned a payload since the last store
    \* ---- stale-artifact cleanup script --------------------------------
    disk,               \* the files under DMM_DIR: path -> [exists, size]
    locked,             \* the products directory cannot be written (rm fails)
    cleanup,            \* the script run that ended last: what it did and printed
    prompt,             \* main is waiting at its question, with the list it found
    \* ---- person directory ----------------------------------------------
    location,           \* the query parameters of /actresses: page, search
    listRequest,        \* the query getActressList sent for this page load
    listView,           \* what ActressListPresentation shows
    detailPage,         \* the person detail page opened last: its view and requests
    \* ---- ranking ledger -------------------------------------------------
    person_ranking,     \* the rows of the table person_ranking, in insertion order
    pendingBumps,       \* per person: answered searches whose ledger write is to come
    wins,               \* history: per person, the searches answered with them at rank 1
    recorded,           \* history: per person, the ledger writes that succeeded
    ledgerNow,          \* the clock of the ledger store
    \* ---- empty-directory cleanup script -----------------------------------
    dmm,                \* the directories below DMM_DIR: what each one is
    sweep               \* the latest run of the script and what it reported

gateVars == <<cookie, now, page, ageVerified, showModal, isPending, isVisible,
              effectQueued, inflight, orphaned, declineResult, confirmResult, gateLog>>

uploadVars == <<selectedImage, previewUrl, isSearching, isDragOver, isPasteSupported,
                clipboardApi, supportChecked, pastePending, request, lastToasts,
                lastOffer, lastFetched, lastDone, route, classified>>

readVars == <<readCall, readResult, display>>

storageVars == <<storage, storageAccess, storageOp, consumed>>

cleanupVars == <<disk, locked, cleanup, prompt>>

directoryVars == <<location, listRequest, listView, detailPage>>

rankingVars == <<person_ranking, pendingBumps, wins, recorded, ledgerNow>>

sweepVars == <<dmm, sweep>>

vars == <<gateVars, uploadVars, readVars, storageVars, cleanupVars, directoryVars,
         rankingVars, sweepVars>>

\* everything but one feature's variables
offGate == <<uploadVars, readVars, storageVars, cleanupVars, directoryVars,
    rankingVars, sweepVars>>
offUpload == <<gateVars, readVars, storageVars, cleanupVars, directoryVars,
    rankingVars, sweepVars>>
offRead == <<gateVars, uploadVars, storageVars, cleanupVars, directoryVars,
    rankingVars, sweepVars>>
offStorage == <<gateVars, uploadVars, readVars, cleanupVars, directoryVars,
    rankingVars, sweepVars>>
offCleanup == <<gateVars, uploadVars, readVars, storageVars, directoryVars,
    rankingVars, sweepVars>>
offDirectory == <<gateVars, uploadVars, readVars, storageVars, cleanupVars,
    rankingVars, sweepVars>>
offRanking == <<gateVars, uploadVars, readVars, storageVars, cleanupVars, directoryVars,
    sweepVars>>
offSweep == <<gateVars, uploadVars, readVars, storageVars, cleanupVars, directoryVars,
    rankingVars>>

(***************************************************************************)
(* Bounds of the model                                                     *)
(***************************************************************************)
MaxTicks == 3       \* how many times the clock is advanced in one behaviour
MaxPending == 2     \* how many clipboard reads are in flight at one time
MaxResults == 6     \* how many results a search session carries at most
MaxProducts == 2    \* how many products the gateway returns at most
MaxPage == 3        \* the largest page number a URL of the model asks for
MaxSearches == 4    \* how many searches are answered in one behaviour

(***************************************************************************)
(* lib/age-verification.ts                                                 *)
(***************************************************************************)
AGE_VERIFICATION_VALUE == "confirmed"
COOKIE_MAX_AGE == 365 * 24 * 60 * 60

NoCookie == [present |-> FALSE, value |-> "", expires |-> 0]

\* Values an age_verified cookie can hold: the marker, or anything else a
\* visitor (the cookie is not httpOnly) or an older deployment wrote.
CookieValues == {AGE_VERIFICATION_VALUE, "invalid_value", ""}

\* cookieStore.get(name): the browser sends the cookie until it expires.
CookieGet(jar, t) ==
    IF jar.present /\ t < jar.expires
    THEN [found |-> TRUE, value |-> jar.value]
    ELSE [found |-> FALSE, value |-> ""]

\* completions of a call
Returned == [kind |-> "return", what |-> "", url |-> ""]
Threw(msg) == [kind |-> "throw", what |-> msg, url |-> ""]
NotCalled == [kind |-> "none", what |-> "", url |-> ""]

isAgeVerified_noMarkerCheck(jar, t, readThrows) ==
    IF readThrows THEN FALSE ELSE CookieGet(jar, t).found

\* isAgeVerified(): ageVerificationCookie?.value === AGE_VERIFICATION_VALUE,
\* and false when reading the cookie store throws.
isAgeVerified(jar, t, readThrows) ==
    IF readThrows
    THEN FALSE
    ELSE LET ageVerificationCookie == CookieGet(jar, t)
         IN  ageVerificationCookie.found
             /\ ageVerificationCookie.value = AGE_VERIFICATION_VALUE

setAgeVerified_shortLived(jar, t, setThrows) ==
    IF setThrows
    THEN [jar |-> jar, done |-> Threw("Error: failed to set age verification")]
    ELSE [jar |-> [present |-> TRUE, value |-> AGE_VERIFICATION_VALUE,
                   expires |-> t + 1],
          done |-> Returned]

\* setAgeVerified(): sets the cookie for COOKIE_MAX_AGE seconds, or throws.
setAgeVerified(jar, t, setThrows) ==
    IF setThrows
    THEN [jar |-> jar, done |-> Threw("Error: failed to set age verification")]
    ELSE [jar |-> [present |-> TRUE, value |-> AGE_VERIFICATION_VALUE,
                   expires |-> t + COOKIE_MAX_AGE],
          done |-> Returned]

\* clearAgeVerification(): deletes the cookie, or throws.
clearAgeVerification(jar, clearThrows) ==
    IF clearThrows
    THEN [jar |-> jar, done |-> Threw("Error: failed to clear age verification")]
    ELSE [jar |-> NoCookie, done |-> Returned]

(***************************************************************************)
(* actions/age-verification/age-verification.ts (server actions)           *)
(***************************************************************************)
REDIRECT_URL == "https://www.google.com"

\* next/navigation redirect(): never returns, it throws NEXT_REDIRECT.
redirect(url) == [kind |-> "throw", what |-> "NEXT_REDIRECT", url |-> url]

\* confirmAgeVerification(): any failure of setAgeVerified is rethrown.
confirmAgeVerification(jar, t, setThrows) ==
    LET r == setAgeVerified(jar, t, setThrows)
    IN  IF r.done.kind = "throw"
        THEN [jar |-> r.jar, done |-> Threw("Error: failed to confirm age verification")]
        ELSE [jar |-> r.jar, done |-> Returned]

declineAgeVerification_rethrow(jar, clearThrows) ==
    LET r == clearAgeVerification(jar, clearThrows)
        tryBlock == IF r.done.kind = "throw" THEN r.done ELSE redirect(REDIRECT_URL)
    IN  [jar |-> r.jar, done |-> tryBlock]

\* declineAgeVerification(): the try block clears the cookie and redirects;
\* whatever the try block throws (the clear failure, or the NEXT_REDIRECT of
\* its own redirect) is caught, and the catch block redirects again.
declineAgeVerification(jar, clearThrows) ==
    LET r == clearAgeVerification(jar, clearThrows)
        tryBlock == IF r.done.kind = "throw" THEN r.done ELSE redirect(REDIRECT_URL)
        catchBlock == redirect(REDIRECT_URL)
    IN  [jar |-> r.jar,
         done |-> IF tryBlock.kind = "throw" THEN catchBlock ELSE tryBlock]

(***************************************************************************)
(* features/age-verification: provider and modal                           *)
(***************************************************************************)
isOpen_ignoresPending(show, pending) == show

\* AgeVerificationProvider: isOpen={showModal && !isPending}
isOpen(show, pending) == show /\ ~pending

\* A render with a changed isOpen prop schedules the modal's [isOpen] effect.
EffectAfter(show, pending) ==
    effectQueued \/ (isOpen(show, pending) # isOpen(showModal, isPending))

\* The modal renders its overlay exactly when isVisible (if (!isVisible) return null).
OverlayRendered == page = "site" /\ isVisible

\* The gate's state as the cookie defines it.
Unverified == ~isAgeVerified(cookie, now, FALSE)

\* History kept for the properties: the last successful confirm, whether a
\* decline ran since, what the last page load saw, the last decline's clear.
NoLog == [confirmAt |-> -1, declined |-> FALSE, clearThrew |-> FALSE,
          loadAt |-> -1, loadReadThrows |-> FALSE, loadConfirmAt |-> -1,
          loadDeclined |-> FALSE, loadCookie |-> [found |-> FALSE, value |-> ""],
          pageConfirmed |-> FALSE, ticks |-> 0, startCookie |-> FALSE]

GateInit ==
    /\ cookie \in {NoCookie}
                  \cup {[present |-> TRUE, value |-> v, expires |-> COOKIE_MAX_AGE] :
                            v \in CookieValues}
    /\ now = 0
    /\ page = "none"
    /\ ageVerified = FALSE
    /\ showModal = FALSE
    /\ isPending = FALSE
    /\ isVisible = FALSE
    /\ effectQueued = FALSE
    /\ inflight = "none"
    /\ orphaned = FALSE
    /\ declineResult = NotCalled
    /\ confirmResult = NotCalled
    /\ gateLog = [NoLog EXCEPT !.startCookie = cookie.present]

\* RootLayout renders a page: isAgeVerified() on the server, then the provider
\* and the modal mount with their initial state; the mount schedules the effect.
PageLoad ==
    \E readThrows \in BOOLEAN :
        /\ ageVerified' = isAgeVerified(cookie, now, readThrows)
        /\ page' = "site"
        /\ showModal' = ~ageVerified'
        /\ isPending' = FALSE
        /\ isVisible' = FALSE
        /\ effectQueued' = TRUE
        /\ orphaned' = (inflight # "none")
        /\ gateLog' = [gateLog EXCEPT !.loadAt = now,
                                      !.loadReadThrows = readThrows,
                                      !.loadConfirmAt = gateLog.confirmAt,
                                      !.loadCookie = CookieGet(cookie, now),
                                      !.pageConfirmed = FALSE,
                                      !.loadDeclined = gateLog.declined]
        /\ UNCHANGED <<cookie, now, inflight, declineResult, confirmResult>>

\* AgeVerificationModal: useEffect(() => { if (isOpen) setIsVisible(true) }, [isOpen])
RunEffect ==
    /\ page = "site"
    /\ effectQueued
    /\ effectQueued' = FALSE
    /\ isVisible' = IF isOpen(showModal, isPending) THEN TRUE ELSE isVisible
    /\ UNCHANGED <<cookie, now, page, ageVerified, showModal, isPending, inflight,
                   orphaned, declineResult, confirmResult, gateLog>>

\* handleYes: setIsVisible(false); onVerified() starts the transition that
\* awaits confirmAgeVerification().
ClickYes ==
    /\ OverlayRendered
    /\ ~effectQueued
    /\ inflight = "none"
    /\ isVisible' = FALSE
    /\ isPending' = TRUE
    /\ effectQueued' = EffectAfter(showModal, TRUE)
    /\ inflight' = "confirm"
    /\ orphaned' = FALSE
    /\ UNCHANGED <<cookie, now, page, ageVerified, showModal, declineResult,
                   confirmResult, gateLog>>

\* handleNo: setIsVisible(false); onDeclined() starts the transition that
\* awaits declineAgeVerification().
ClickNo ==
    /\ OverlayRendered
    /\ ~effectQueued
    /\ inflight = "none"
    /\ isVisible' = FALSE
    /\ isPending' = TRUE
    /\ effectQueued' = EffectAfter(showModal, TRUE)
    /\ inflight' = "decline"
    /\ orphaned' = FALSE
    /\ UNCHANGED <<cookie, now, page, ageVerified, showModal, declineResult,
                   confirmResult, gateLog>>

ConfirmSettles_closesOnFailure ==
    /\ inflight = "confirm"
    /\ ~effectQueued \/ orphaned
    /\ \E setThrows \in BOOLEAN :
        LET r == confirmAgeVerification(cookie, now, setThrows)
            show == FALSE
        IN  /\ cookie' = r.jar
            /\ confirmResult' = r.done
            /\ gateLog' = IF r.done.kind = "return"
                          THEN [gateLog EXCEPT !.confirmAt = now, !.declined = FALSE,
                                               !.pageConfirmed = @ \/ ~orphaned]
                          ELSE gateLog
            /\ IF orphaned
               THEN UNCHANGED <<showModal, isPending, effectQueued>>
               ELSE /\ showModal' = show
                    /\ isPending' = FALSE
                    /\ effectQueued' = EffectAfter(show, FALSE)
    /\ inflight' = "none"
    /\ orphaned' = FALSE
    /\ UNCHANGED <<now, page, ageVerified, isVisible, declineResult>>

\* The confirm request settles: the server action runs, then handleVerified
\* continues on the page that asked (if it is still there).
ConfirmSettles ==
    /\ inflight = "confirm"
    /\ ~effectQueued \/ orphaned
    /\ \E setThrows \in BOOLEAN :
        LET r == confirmAgeVerification(cookie, now, setThrows)
            show == IF r.done.kind = "return" THEN FALSE ELSE showModal
        IN  /\ cookie' = r.jar
            /\ confirmResult' = r.done
            /\ gateLog' = IF r.done.kind = "return"
                          THEN [gateLog EXCEPT !.confirmAt = now, !.declined = FALSE,
                                               !.pageConfirmed = @ \/ ~orphaned]
                          ELSE gateLog
            /\ IF orphaned
               THEN UNCHANGED <<showModal, isPending, effectQueued>>
               ELSE /\ showModal' = show
                    /\ isPending' = FALSE
                    /\ effectQueued' = EffectAfter(show, FALSE)
    /\ inflight' = "none"
    /\ orphaned' = FALSE
    /\ UNCHANGED <<now, page, ageVerified, isVisible, declineResult>>

\* The decline request settles: the server action runs and its redirect
\* navigates the browser away; a request that never reached the server, or an
\* action that ends otherwise, leaves handleDeclined to finish the transition.
DeclineSettles ==
    /\ inflight = "decline"
    /\ ~effectQueued \/ orphaned
    /\ \E reached \in BOOLEAN, clearThrows \in BOOLEAN :
        LET r == IF reached THEN declineAgeVerification(cookie, clearThrows)
                 ELSE [jar |-> cookie, done |-> declineResult]
            navigates == reached /\ r.done.what = "NEXT_REDIRECT"
        IN  /\ reached \/ ~clearThrows
            /\ cookie' = r.jar
            /\ declineResult' = r.done
            /\ gateLog' = IF reached
                          THEN [gateLog EXCEPT !.declined = TRUE,
                                               !.clearThrew = clearThrows]
                          ELSE gateLog
            /\ IF orphaned
               THEN UNCHANGED <<page, isPending, effectQueued>>
               ELSE IF navigates
                    THEN /\ page' = "external"
                         /\ UNCHANGED <<isPending, effectQueued>>
                    ELSE /\ isPending' = FALSE
                         /\ effectQueued' = EffectAfter(showModal, FALSE)
                         /\ UNCHANGED page
    /\ inflight' = "none"
    /\ orphaned' = FALSE
    /\ UNCHANGED <<now, ageVerified, showModal, isVisible, confirmResult>>

\* Time passes.
TimeSteps == {1, COOKIE_MAX_AGE - 1, COOKIE_MAX_AGE}

Tick ==
    /\ gateLog.ticks < MaxTicks
    /\ \E d \in TimeSteps : now' = now + d
    /\ gateLog' = [gateLog EXCEPT !.ticks = @ + 1]
    /\ UNCHANGED <<cookie, page, ageVerified, showModal, isPending, isVisible,
                   effectQueued, inflight, orphaned, declineResult, confirmResult>>

(***************************************************************************)
(* actions/search/type.ts, actions/search/error.ts: the error taxonomy     *)
(***************************************************************************)
\* errorCodeSchema = z.enum([...])
ErrorCodes == {"NO_FACE_DETECTED", "MULTIPLE_FACES", "INVALID_IMAGE", "SERVER_ERROR",
               "NETWORK_ERROR", "UNKNOWN_ERROR", "SESSION_NOT_FOUND"}

\* isErrorCode = errorCodeSchema.safeParse(code).success
isErrorCode(code) == code \in ErrorCodes

\* What a property lookup or a call gives when there is nothing: undefined.
UNDEFINED == "undefined"

\* getErrorMessage(code): messages[code]. The strings stand for the Japanese
\* copy of the source, one distinct string for each.
getErrorMessage(code) ==
    CASE code = "NO_FACE_DETECTED"  -> "No face could be detected in the image"
      [] code = "MULTIPLE_FACES"    -> "The image must contain exactly one face"
      [] code = "INVALID_IMAGE"     -> "Invalid image format"
      [] code = "SERVER_ERROR"      -> "A server error occurred"
      [] code = "NETWORK_ERROR"     -> "A network error occurred"
      [] code = "UNKNOWN_ERROR"     -> "An unexpected error occurred"
      [] code = "SESSION_NOT_FOUND" -> "The search result was not found"
      [] OTHER                      -> UNDEFINED

getErrorType_sessionNotFoundMissing(code) ==
    CASE code \in {"NO_FACE_DETECTED", "MULTIPLE_FACES", "INVALID_IMAGE"} -> "warning"
      [] code \in {"SERVER_ERROR", "NETWORK_ERROR", "UNKNOWN_ERROR"} -> "error"
      [] OTHER -> "info"

\* getErrorType(code): the switch, with its default.
getErrorType(code) ==
    CASE code \in {"NO_FACE_DETECTED", "MULTIPLE_FACES", "INVALID_IMAGE"} -> "warning"
      [] code \in {"SERVER_ERROR", "NETWORK_ERROR", "UNKNOWN_ERROR",
                   "SESSION_NOT_FOUND"} -> "error"
      [] OTHER -> "info"

\* Values handed to the two functions: the codes, strings that are no code,
\* and an absent code (undefined).
CodeInputs == ErrorCodes \cup {"TIMEOUT", "no_face_detected", "", UNDEFINED}

(***************************************************************************)
(* JSON values, as JSON.parse gives them: tagged, so that a schema can ask *)
(* for the type of a value.                                                *)
(***************************************************************************)
JStr(s) == [t |-> "string", v |-> s]
JNum == [t |-> "number", v |-> 0]
JNull == [t |-> "null", v |-> 0]
JArr(items) == [t |-> "array", v |-> items]
JObj(fields) == [t |-> "object", v |-> fields]

Has(j, key) == j.t = "object" /\ key \in DOMAIN j.v
IsString(j, key) == Has(j, key) /\ j.v[key].t = "string"
IsNumber(j, key) == Has(j, key) /\ j.v[key].t = "number"

\* The response bodies of the model, as text.
ErrBody(code) == "{\"error\":{\"code\":\"" \o code \o "\",\"message\":\"m\"}}"
BodyCodes == ErrorCodes \cup {"TIMEOUT", ""}
EmptyBody == ""
HtmlBody == "<html>502 Bad Gateway</html>"
NullBody == "null"
EmptyObjBody == "{}"
ErrBodyNoMessage == "{\"error\":{\"code\":\"NO_FACE_DETECTED\"}}"
FlatErrBody == "{\"code\":\"NO_FACE_DETECTED\",\"message\":\"m\"}"
DetailBody == "{\"detail\":\"Not Found\"}"
OkBody0 == "{\"results\":[],\"processing_time\":0.1,\"search_session_id\":\"s1\"}"
OkBody1 == "{\"results\":[{\"name\":\"A\",\"similarity\":0.9,\"distance\":0.1,\"image_path\":\"/a.jpg\"}],\"processing_time\":0.1,\"search_session_id\":\"s2\"}"
OkBodyNoSession == "{\"results\":[],\"processing_time\":0.1}"
OkBodyBadResult == "{\"results\":[{\"name\":\"A\"}],\"processing_time\":0.1,\"search_session_id\":\"s3\"}"
InvalidBody == "{\"invalid_field\":\"invalid data\"}"

BodyTexts == {ErrBody(c) : c \in BodyCodes}
             \cup {EmptyBody, HtmlBody, NullBody, EmptyObjBody, ErrBodyNoMessage,
                   FlatErrBody, DetailBody, OkBody0, OkBody1, OkBodyNoSession,
                   OkBodyBadResult, InvalidBody}

GoodResult == JObj([name |-> JStr("A"), similarity |-> JNum, distance |-> JNum,
                    image_path |-> JStr("/a.jpg")])

\* JSON.parse(text): the value of each text, or a SyntaxError.
JSONParse(text) ==
    CASE text \in {ErrBody(c) : c \in BodyCodes} ->
            [ok |-> TRUE,
             value |-> JObj([error |->
                 JObj([code |-> JStr(CHOOSE c \in BodyCodes : text = ErrBody(c)),
                       message |-> JStr("m")])])]
      [] text = NullBody -> [ok |-> TRUE, value |-> JNull]
      [] text = EmptyObjBody -> [ok |-> TRUE, value |-> JObj(<<>>)]
      [] text = ErrBodyNoMessage ->
            [ok |-> TRUE,
             value |-> JObj([error |-> JObj([code |-> JStr("NO_FACE_DETECTED")])])]
      [] text = FlatErrBody ->
            [ok |-> TRUE,
             value |-> JObj([code |-> JStr("NO_FACE_DETECTED"), message |-> JStr("m")])]
      [] text = DetailBody ->
            [ok |-> TRUE, value |-> JObj([detail |-> JStr("Not Found")])]
      [] text = OkBody0 ->
            [ok |-> TRUE,
             value |-> JObj([results |-> JArr(<<>>), processing_time |-> JNum,
                             search_session_id |-> JStr("s1")])]
      [] text = OkBody1 ->
            [ok |-> TRUE,
             value |-> JObj([results |-> JArr(<<GoodResult>>), processing_time |-> JNum,
                             search_session_id |-> JStr("s2")])]
      [] text = OkBodyNoSession ->
            [ok |-> TRUE,
             value |-> JObj([results |-> JArr(<<>>), processing_time |-> JNum])]
      [] text = OkBodyBadResult ->
            [ok |-> TRUE,
             value |-> JObj([results |-> JArr(<<JObj([name |-> JStr("A")])>>),
                             processing_time |-> JNum,
                             search_session_id |-> JStr("s3")])]
      [] text = InvalidBody ->
            [ok |-> TRUE, value |-> JObj([invalid_field |-> JStr("invalid data")])]
      [] OTHER -> [ok |-> FALSE, value |-> JNull]

\* errorResponseSchema: { error: { code: errorCodeSchema, message: string } }
isErrorResponse(j) ==
    /\ Has(j, "error")
    /\ IsString(j.v["error"], "code")
    /\ isErrorCode(j.v["error"].v["code"].v)
    /\ IsString(j.v["error"], "message")

\* searchResultSchema
searchResultSchema(j) ==
    /\ IsString(j, "name")
    /\ IsNumber(j, "similarity")
    /\ IsNumber(j, "distance")
    /\ IsString(j, "image_path")

\* searchSuccessResponseSchema
searchSuccessResponseSchema(j) ==
    /\ Has(j, "results")
    /\ j.v["results"].t = "array"
    /\ \A i \in 1..Len(j.v["results"].v) : searchResultSchema(j.v["results"].v[i])
    /\ IsNumber(j, "processing_time")
    /\ IsString(j, "search_session_id")

(***************************************************************************)
(* actions/search/search.ts: the search action                             *)
(***************************************************************************)
\* What fetch() and response.text() give a call.
NetworkFailure == [kind |-> "network", status |-> 0, text |-> "", bodyRead |-> FALSE]
Statuses == {200, 400, 500}
Fetched == {NetworkFailure}
           \cup {[kind |-> "response", status |-> st, text |-> "", bodyRead |-> FALSE] :
                     st \in Statuses}
           \cup {[kind |-> "response", status |-> st, text |-> tx, bodyRead |-> TRUE] :
                     st \in Statuses, tx \in BodyTexts}
NothingFetched == [kind |-> "none", status |-> 0, text |-> "", bodyRead |-> FALSE]

\* response.ok
ResponseOk(status) == status >= 200 /\ status <= 299

\* completions of searchImage
SearchReturned(sessionId, n) ==
    [kind |-> "return", isError |-> FALSE, name |-> "", message |-> "",
     search_session_id |-> sessionId, results |-> n]
SearchThrew(name, message) ==
    [kind |-> "throw", isError |-> TRUE, name |-> name, message |-> message,
     search_session_id |-> "", results |-> 0]
SearchNotCalled ==
    [kind |-> "none", isError |-> FALSE, name |-> "", message |-> "",
     search_session_id |-> "", results |-> 0]

\* new SearchResultError(code)
SearchResultError(code) == SearchThrew("SearchResultError", code)

NoFile == [size |-> -1, type |-> <<>>]

searchImage_ignoresBodyCode(image, fetched) ==
    IF image = NoFile THEN SearchResultError("INVALID_IMAGE")
    ELSE IF fetched.kind = "network" THEN SearchThrew("TypeError", "fetch failed")
    ELSE IF ~fetched.bodyRead THEN SearchThrew("TypeError", "terminated")
    ELSE IF ~ResponseOk(fetched.status) \/ ~JSONParse(fetched.text).ok
         THEN SearchResultError("SERVER_ERROR")
    ELSE LET data == JSONParse(fetched.text).value
         IN  IF ~searchSuccessResponseSchema(data)
             THEN SearchResultError("UNKNOWN_ERROR")
             ELSE SearchReturned(data.v["search_session_id"].v,
                                 Len(data.v["results"].v))

searchImage_noValidation(image, fetched) ==
    IF image = NoFile THEN SearchResultError("INVALID_IMAGE")
    ELSE IF fetched.kind = "network" THEN SearchThrew("TypeError", "fetch failed")
    ELSE IF ~fetched.bodyRead THEN SearchThrew("TypeError", "terminated")
    ELSE IF fetched.text = "" \/ ~JSONParse(fetched.text).ok
    THEN SearchResultError("SERVER_ERROR")
    ELSE LET data == JSONParse(fetched.text).value
         IN  IF ~ResponseOk(fetched.status)
             THEN IF isErrorResponse(data)
                  THEN SearchResultError(data.v["error"].v["code"].v)
                  ELSE SearchResultError("SERVER_ERROR")
             ELSE IF searchSuccessResponseSchema(data)
             THEN SearchReturned(data.v["search_session_id"].v,
                                 Len(data.v["results"].v))
             ELSE SearchReturned("", 0)

\* searchImage(formData)
searchImage(image, fetched) ==
    IF image = NoFile
    THEN SearchResultError("INVALID_IMAGE")
    ELSE LET tryBlock ==
                 IF fetched.kind = "network"
                 THEN SearchThrew("TypeError", "fetch failed")      \* await fetch(...)
                 ELSE IF ~fetched.bodyRead
                 THEN SearchThrew("TypeError", "terminated")        \* await response.text()
                 ELSE IF fetched.text = ""
                 THEN SearchResultError("SERVER_ERROR")
                 ELSE LET parsed == JSONParse(fetched.text)
                          data == parsed.value
                      IN  IF ~parsed.ok
                          THEN SearchResultError("SERVER_ERROR")
                          ELSE IF ~ResponseOk(fetched.status)
                          THEN IF isErrorResponse(data)
                               THEN SearchResultError(data.v["error"].v["code"].v)
                               ELSE SearchResultError("SERVER_ERROR")
                          ELSE IF ~searchSuccessResponseSchema(data)
                          THEN SearchResultError("UNKNOWN_ERROR")
                          ELSE SearchReturned(data.v["search_session_id"].v,
                                              Len(data.v["results"].v))
         IN  \* catch (error): an Error is rethrown as it is
             IF tryBlock.kind = "throw" /\ ~tryBlock.isError
             THEN SearchResultError("UNKNOWN_ERROR")
             ELSE tryBlock

(***************************************************************************)
(* features/image-upload/ImageUploadZone.tsx: the upload widget            *)
(***************************************************************************)
\* const maxSizeKB = 500
maxSizeKB == 500
maxSizeBytes == maxSizeKB * 1024

\* A declared type is a sequence of characters.
ImagePrefix == <<"i", "m", "a", "g", "e", "/">>
TypePng == ImagePrefix \o <<"p", "n", "g">>
TypeJpeg == ImagePrefix \o <<"j", "p", "e", "g">>
TypeText == <<"t", "e", "x", "t", "/", "p", "l", "a", "i", "n">>
TypeNone == <<>>
TypeImageNoSlash == <<"i", "m", "a", "g", "e">>
TypeUpper == <<"I", "M", "A", "G", "E", "/", "P", "N", "G">>
TypeNested == <<"x", "/">> \o ImagePrefix
FileTypes == {TypePng, TypeJpeg, TypeText, TypeNone, TypeImageNoSlash, TypeUpper,
              TypeNested}
FileSizes == {0, maxSizeBytes - 1, maxSizeBytes, maxSizeBytes + 1}
Files == [size : FileSizes, type : FileTypes]

\* String.prototype.startsWith
startsWith(s, prefix) ==
    Len(s) >= Len(prefix) /\ SubSeq(s, 1, Len(prefix)) = prefix

\* URL.createObjectURL(file)
createObjectURL(file) == [blob |-> file]
NoUrl == [blob |-> NoFile]

\* toast.error(message, { closeButton: true }) and toast.success(message):
\* every error toast of the widget has the close button, no success toast has.
Toast(level, message) ==
    [level |-> level, message |-> message, closeButton |-> (level = "error")]

validateAndSetFile_noPreview(file, sel, prev) ==
    IF file.size > maxSizeBytes
    THEN [ok |-> FALSE, selectedImage |-> sel, previewUrl |-> prev,
          toasts |-> <<Toast("error", "The file is too large (500KB or less)")>>]
    ELSE IF ~startsWith(file.type, ImagePrefix)
    THEN [ok |-> FALSE, selectedImage |-> sel, previewUrl |-> prev,
          toasts |-> <<Toast("error", "Please select an image file")>>]
    ELSE [ok |-> TRUE, selectedImage |-> file, previewUrl |-> prev,
          toasts |-> <<>>]

validateAndSetFile_noTypeCheck(file, sel, prev) ==
    IF file.size > maxSizeBytes
    THEN [ok |-> FALSE, selectedImage |-> sel, previewUrl |-> prev,
          toasts |-> <<Toast("error", "The file is too large (500KB or less)")>>]
    ELSE [ok |-> TRUE, selectedImage |-> file, previewUrl |-> createObjectURL(file),
          toasts |-> <<>>]

\* validateAndSetFile(file): the result, and the state it leaves
validateAndSetFile(file, sel, prev) ==
    IF file.size > maxSizeBytes
    THEN [ok |-> FALSE, selectedImage |-> sel, previewUrl |-> prev,
          toasts |-> <<Toast("error", "The file is too large (500KB or less)")>>]
    ELSE IF ~startsWith(file.type, ImagePrefix)
    THEN [ok |-> FALSE, selectedImage |-> sel, previewUrl |-> prev,
          toasts |-> <<Toast("error", "Please select an image file")>>]
    ELSE [ok |-> TRUE, selectedImage |-> file, previewUrl |-> createObjectURL(file),
          toasts |-> <<>>]

\* What the latest handler was offered, and what became of it.
Offer(via, file, ok) ==
    [via |-> via, tooLarge |-> file.size > maxSizeBytes,
     notImage |-> ~startsWith(file.type, ImagePrefix), accepted |-> ok,
     file |-> IF ok THEN file ELSE NoFile]
NoOffer == [via |-> "none", tooLarge |-> FALSE, notImage |-> FALSE, accepted |-> FALSE,
            file |-> NoFile]

NotClassified == [code |-> "", message |-> "", severity |-> "", applied |-> FALSE]

\* The ghost variables say what the latest step did; a step that fetched
\* nothing, was offered nothing or classified nothing resets them.
Quiet(toasts) ==
    /\ lastToasts' = toasts
    /\ lastFetched' = NothingFetched
    /\ lastDone' = SearchNotCalled
    /\ classified' = NotClassified

UploadIdle ==
    /\ selectedImage = NoFile
    /\ previewUrl = NoUrl
    /\ isSearching = FALSE
    /\ isDragOver = FALSE
    /\ isPasteSupported = FALSE
    /\ clipboardApi = FALSE
    /\ supportChecked = FALSE
    /\ pastePending = 0
    /\ request = NoFile
    /\ lastToasts = <<>>
    /\ lastOffer = NoOffer
    /\ lastFetched = NothingFetched
    /\ lastDone = SearchNotCalled
    /\ route = "/"
    /\ classified = NotClassified

\* The widget as mounted: the useState initial values; the browser has the
\* clipboard API or has not.
UploadInit ==
    /\ selectedImage = NoFile
    /\ previewUrl = NoUrl
    /\ isSearching = FALSE
    /\ isDragOver = FALSE
    /\ isPasteSupported = FALSE
    /\ clipboardApi \in BOOLEAN
    /\ supportChecked = FALSE
    /\ pastePending = 0
    /\ request = NoFile
    /\ lastToasts = <<>>
    /\ lastOffer = NoOffer
    /\ lastFetched = NothingFetched
    /\ lastDone = SearchNotCalled
    /\ route = "/"
    /\ classified = NotClassified

\* useEffect(() => { checkClipboardSupport() }, []): runs once after mount,
\* before any event is handled.
CheckClipboardSupport ==
    /\ ~supportChecked
    /\ supportChecked' = TRUE
    /\ isPasteSupported' = clipboardApi
    /\ Quiet(<<>>)
    /\ lastOffer' = NoOffer
    /\ UNCHANGED <<selectedImage, previewUrl, isSearching, isDragOver, clipboardApi,
                   pastePending, request, route>>

\* handleImageChange: the hidden input, opened by the zone unless searching
PickFile ==
    /\ supportChecked
    /\ ~isSearching
    /\ \E file \in Files :
         LET r == validateAndSetFile(file, selectedImage, previewUrl)
         IN  /\ selectedImage' = r.selectedImage
             /\ previewUrl' = r.previewUrl
             /\ Quiet(r.toasts)
             /\ lastOffer' = Offer("picker", file, r.ok)
    /\ UNCHANGED <<isSearching, isDragOver, isPasteSupported, clipboardApi,
                   supportChecked, pastePending, request, route>>

\* handleDragOver
DragOver ==
    /\ supportChecked
    /\ isDragOver' = (IF ~isSearching THEN TRUE ELSE isDragOver)
    /\ Quiet(<<>>)
    /\ lastOffer' = NoOffer
    /\ UNCHANGED <<selectedImage, previewUrl, isSearching, isPasteSupported,
                   clipboardApi, supportChecked, pastePending, request, route>>

\* handleDragLeave
DragLeave ==
    /\ supportChecked
    /\ isDragOver' = FALSE
    /\ Quiet(<<>>)
    /\ lastOffer' = NoOffer
    /\ UNCHANGED <<selectedImage, previewUrl, isSearching, isPasteSupported,
                   clipboardApi, supportChecked, pastePending, request, route>>

\* handleDrop: dataTransfer.files is empty or its first file is validated
Drop ==
    /\ supportChecked
    /\ isDragOver' = FALSE
    /\ \E file \in Files \cup {NoFile} :
         IF isSearching \/ file = NoFile
         THEN /\ UNCHANGED <<selectedImage, previewUrl>>
              /\ Quiet(<<>>)
              /\ lastOffer' = NoOffer
         ELSE LET r == validateAndSetFile(file, selectedImage, previewUrl)
              IN  /\ selectedImage' = r.selectedImage
                  /\ previewUrl' = r.previewUrl
                  /\ Quiet(r.toasts)
                  /\ lastOffer' = Offer("drop", file, r.ok)
    /\ UNCHANGED <<isSearching, isPasteSupported, clipboardApi, supportChecked,
                   pastePending, request, route>>

\* What navigator.clipboard.read() settles with: a rejection, items without
\* an image type, or an item whose first image type gives a blob of a size.
ClipboardRejections == {"NotAllowedError", "DataError"}
ClipboardImages == {f \in Files : startsWith(f.type, ImagePrefix)}

\* handleClipboardPaste up to its await: by the paste button (rendered while
\* paste is supported, nothing is selected and no search runs) or by
\* Ctrl+V / Cmd+V outside an input (handleKeyDown, unless searching).
PasteStart ==
    /\ supportChecked
    /\ ~isSearching
    /\ \E via \in {"button", "key"} :
         via = "button" => (isPasteSupported /\ selectedImage = NoFile)
    /\ IF ~isPasteSupported
       THEN /\ Quiet(<<Toast("error", "Clipboard paste is not supported in this browser")>>)
            /\ UNCHANGED pastePending
       ELSE /\ pastePending < MaxPending
            /\ pastePending' = pastePending + 1
            /\ Quiet(<<>>)
    /\ lastOffer' = NoOffer
    /\ UNCHANGED <<selectedImage, previewUrl, isSearching, isDragOver, isPasteSupported,
                   clipboardApi, supportChecked, request, route>>

\* handleClipboardPaste after navigator.clipboard.read() has settled
PasteRejected ==
    /\ pastePending > 0
    /\ pastePending' = pastePending - 1
    /\ \E name \in ClipboardRejections :
         Quiet(<<Toast("error",
                       IF name = "NotAllowedError"
                       THEN "Access to the clipboard was denied"
                       ELSE "Could not read an image from the clipboard")>>)
    /\ lastOffer' = NoOffer
    /\ UNCHANGED <<selectedImage, previewUrl, isSearching, isDragOver, isPasteSupported,
                   clipboardApi, supportChecked, request, route>>

PasteNoImage ==
    /\ pastePending > 0
    /\ pastePending' = pastePending - 1
    /\ Quiet(<<Toast("error", "No image was found in the clipboard")>>)
    /\ lastOffer' = NoOffer
    /\ UNCHANGED <<selectedImage, previewUrl, isSearching, isDragOver, isPasteSupported,
                   clipboardApi, supportChecked, request, route>>

PasteImage ==
    /\ pastePending > 0
    /\ pastePending' = pastePending - 1
    /\ \E file \in ClipboardImages :
         LET r == validateAndSetFile(file, selectedImage, previewUrl)
         IN  /\ selectedImage' = r.selectedImage
             /\ previewUrl' = r.previewUrl
             /\ Quiet(r.toasts \o <<Toast("success", "Loaded the image from the clipboard!")>>)
             /\ lastOffer' = Offer("paste", file, r.ok)
    /\ UNCHANGED <<isSearching, isDragOver, isPasteSupported, clipboardApi,
                   supportChecked, request, route>>

Submit_ignoresPending ==
    /\ supportChecked
    /\ selectedImage # NoFile
    /\ isSearching' = TRUE
    /\ request' = selectedImage
    /\ Quiet(<<>>)
    /\ lastOffer' = NoOffer
    /\ UNCHANGED <<selectedImage, previewUrl, isDragOver, isPasteSupported, clipboardApi,
                   supportChecked, pastePending, route>>

\* handleSubmit up to its await: formData.append("image", selectedImage)
Submit ==
    /\ supportChecked
    /\ selectedImage # NoFile
    /\ ~isSearching
    /\ isSearching' = TRUE
    /\ request' = selectedImage
    /\ Quiet(<<>>)
    /\ lastOffer' = NoOffer
    /\ UNCHANGED <<selectedImage, previewUrl, isDragOver, isPasteSupported, clipboardApi,
                   supportChecked, pastePending, route>>

\* The message of the catch block of handleSubmit
DefaultSearchErrorMessage == "An error occurred during the search"
SubmitErrorMessage(thrown) ==
    IF thrown.isError /\ isErrorCode(thrown.message)
    THEN getErrorMessage(thrown.message)
    ELSE DefaultSearchErrorMessage

SearchSettles_resetsSelection ==
    /\ isSearching
    /\ \E fetched \in Fetched :
         LET done == searchImage(request, fetched)
         IN  /\ lastFetched' = fetched
             /\ lastDone' = done
             /\ IF done.kind = "return"
                THEN /\ lastToasts' = <<Toast("success", "Search completed!")>>
                     /\ route' = "/result/" \o done.search_session_id
                ELSE /\ lastToasts' = <<Toast("error", SubmitErrorMessage(done))>>
                     /\ UNCHANGED route
    /\ isSearching' = FALSE
    /\ request' = NoFile
    /\ lastOffer' = NoOffer
    /\ classified' = NotClassified
    /\ selectedImage' = NoFile
    /\ previewUrl' = NoUrl
    /\ UNCHANGED <<isDragOver, isPasteSupported, clipboardApi, supportChecked,
                   pastePending>>

\* handleSubmit after searchImage(formData) has settled
SearchSettles ==
    /\ isSearching
    /\ \E fetched \in Fetched :
         LET done == searchImage(request, fetched)
         IN  /\ lastFetched' = fetched
             /\ lastDone' = done
             /\ IF done.kind = "return"
                THEN /\ lastToasts' = <<Toast("success", "Search completed!")>>
                     /\ route' = "/result/" \o done.search_session_id
                ELSE /\ lastToasts' = <<Toast("error", SubmitErrorMessage(done))>>
                     /\ UNCHANGED route
    /\ isSearching' = FALSE
    /\ request' = NoFile
    /\ lastOffer' = NoOffer
    /\ classified' = NotClassified
    /\ UNCHANGED <<selectedImage, previewUrl, isDragOver, isPasteSupported, clipboardApi,
                   supportChecked, pastePending>>

\* getErrorMessage and getErrorType applied to a value
Classify ==
    /\ \E code \in CodeInputs :
         classified' = [code |-> code, message |-> getErrorMessage(code),
                        severity |-> getErrorType(code), applied |-> TRUE]
    /\ lastToasts' = <<>>
    /\ lastFetched' = NothingFetched
    /\ lastDone' = SearchNotCalled
    /\ lastOffer' = NoOffer
    /\ UNCHANGED <<selectedImage, previewUrl, isSearching, isDragOver, isPasteSupported,
                   clipboardApi, supportChecked, pastePending, request, route>>

(***************************************************************************)
(* The read-access layer: features/*/api.ts                                *)
(***************************************************************************)
\* response.json() of a read: no JSON, null, or an object. Of an object the
\* model keeps its results and whether it has the persons of a list.
ResultItem(i) == [isNull |-> FALSE, person_id |-> i, rank |-> i]
NullItem == [isNull |-> TRUE, person_id |-> 0, rank |-> 0]
GoodResults(n) == [i \in 1..n |-> ResultItem(i)]
BadResults(n, k) == [i \in 1..n |-> IF i = k THEN NullItem ELSE ResultItem(i)]

NoResults == [kind |-> "missing", items |-> <<>>, text |-> ""]
ResultsArray(items) == [kind |-> "array", items |-> items, text |-> ""]
ResultsString(s) == [kind |-> "string", items |-> <<>>, text |-> s]
ResultsValues ==
    {NoResults, ResultsString(""), ResultsString("none")}
    \cup {ResultsArray(GoodResults(n)) : n \in 0..MaxResults}
    \cup UNION {{ResultsArray(BadResults(n, k)) : k \in {1, n}} : n \in 1..MaxResults}

NotJsonBody == [kind |-> "notjson", results |-> NoResults, persons |-> FALSE]
JsonNullBody == [kind |-> "null", results |-> NoResults, persons |-> FALSE]
DataBody(results, persons) == [kind |-> "object", results |-> results, persons |-> persons]
PlainBodies == {NotJsonBody, JsonNullBody, DataBody(NoResults, FALSE),
                DataBody(NoResults, TRUE)}
SessionBodies == {NotJsonBody, JsonNullBody}
                 \cup {DataBody(r, FALSE) : r \in ResultsValues}

ReadStatuses == {200, 400, 404, 500}
ReadNetworkFailure == [kind |-> "network", status |-> 0, body |-> NotJsonBody]
ReadAnswers(bodies) ==
    {ReadNetworkFailure}
    \cup {[kind |-> "response", status |-> st, body |-> b] :
              st \in ReadStatuses, b \in bodies}

\* completions of a read-access function
ReadReturned(body) == [kind |-> "return", body |-> body, message |-> ""]
ReadNull == ReadReturned(JsonNullBody)
ReadThrew(message) == [kind |-> "throw", body |-> JsonNullBody, message |-> message]
ReadNotCalled == [kind |-> "none", body |-> JsonNullBody, message |-> ""]

\* getRankingData(): data.ranking?.length reads a property of data
getRankingData(f) ==
    IF f.kind = "network" THEN ReadNull
    ELSE IF ~ResponseOk(f.status) THEN ReadNull
    ELSE IF f.body.kind # "object" THEN ReadNull
    ELSE ReadReturned(f.body)

\* getActressList(params): data.persons.length reads a property of data.persons
getActressList(f) ==
    IF f.kind = "network" THEN ReadNull
    ELSE IF ~ResponseOk(f.status) THEN ReadNull
    ELSE IF f.body.kind # "object" \/ ~f.body.persons THEN ReadNull
    ELSE ReadReturned(f.body)

\* getActressDetail(personId): the catch block rethrows
getActressDetail(f) ==
    IF f.kind = "network" THEN ReadThrew("TypeError: fetch failed")
    ELSE IF ~ResponseOk(f.status)
    THEN IF f.status = 404
         THEN ReadThrew("Error: the person was not found")
         ELSE ReadThrew("Error: API error")
    ELSE IF f.body.kind = "notjson" THEN ReadThrew("SyntaxError")
    ELSE ReadReturned(f.body)

getProductsByPersonId_noCatch(f) ==
    IF f.kind = "network" THEN ReadThrew("TypeError: fetch failed")
    ELSE IF ~ResponseOk(f.status) THEN ReadNull
    ELSE IF f.body.kind = "notjson" THEN ReadThrew("SyntaxError")
    ELSE IF f.body.kind = "null" THEN ReadThrew("TypeError")
    ELSE ReadReturned(f.body)

\* getProductsByPersonId(personId, limit): data.person_name reads a property
getProductsByPersonId(f) ==
    IF f.kind = "network" THEN ReadNull
    ELSE IF ~ResponseOk(f.status) THEN ReadNull
    ELSE IF f.body.kind # "object" THEN ReadNull
    ELSE ReadReturned(f.body)

\* getSearchSessionResults(sessionId): data.results?.length reads a property
getSearchSessionResults(f) ==
    IF f.kind = "network" THEN ReadNull
    ELSE IF ~ResponseOk(f.status) THEN ReadNull
    ELSE IF f.body.kind # "object" THEN ReadNull
    ELSE ReadReturned(f.body)

(***************************************************************************)
(* features/search-results: the result display                             *)
(***************************************************************************)
\* formatSearchResults(results): results.slice(0, 5).map(...); a string has
\* no map, and a null element has no person_id.
FormatLimit == 5
Min(a, b) == IF a < b THEN a ELSE b
formatSearchResults_top3(results) ==
    IF results.kind = "string"
    THEN [threw |-> TRUE, value |-> <<>>]
    ELSE LET sliced == SubSeq(results.items, 1, Min(3, Len(results.items)))
         IN  IF \E i \in 1..Len(sliced) : sliced[i].isNull
             THEN [threw |-> TRUE, value |-> <<>>]
             ELSE [threw |-> FALSE,
                   value |-> [i \in 1..Len(sliced) |->
                                 [id |-> sliced[i].person_id, rank |-> sliced[i].rank]]]

formatSearchResults(results) ==
    IF results.kind = "string"
    THEN [threw |-> TRUE, value |-> <<>>]
    ELSE LET sliced == SubSeq(results.items, 1, Min(FormatLimit, Len(results.items)))
         IN  IF \E i \in 1..Len(sliced) : sliced[i].isNull
             THEN [threw |-> TRUE, value |-> <<>>]
             ELSE [threw |-> FALSE,
                   value |-> [i \in 1..Len(sliced) |->
                                 [id |-> sliced[i].person_id, rank |-> sliced[i].rank]]]

\* What a page shows.
View(name, heading, text, href, cards) ==
    [view |-> name, heading |-> heading, text |-> text, href |-> href, cards |-> cards]

\* The person cards of the result view: the list of the small layout, and
\* the row of the large and medium layouts from left to right.
NoCards == [list |-> <<>>, temple |-> <<>>]
NoDisplay == View("none", "", "", "", NoCards)

\* ErrorDisplay, SearchResultsNotFound, SearchResultsEmpty
ErrorDisplay(error) == View("ErrorDisplay", "An error occurred", error, "/", NoCards)
SearchResultsNotFound ==
    View("SearchResultsNotFound", "The search result is not found",
         "The session ID is invalid or the result has expired.", "/", NoCards)
SearchResultsEmpty ==
    View("SearchResultsEmpty", "No search results were found",
         "Please try again with another image.", "/", NoCards)

\* The row of the large and medium layouts: formattedResults[3], [1], [0],
\* [2], [4], each but [0] only if it is there (indices from 0 in the source).
TempleOrder == <<4, 2, 1, 3, 5>>
TempleRow(formatted) ==
    LET places == SelectSeq(TempleOrder, LAMBDA i : i = 1 \/ i <= Len(formatted))
    IN  [k \in 1..Len(places) |-> formatted[places[k]]]

\* The list of the small layout: formattedResults.slice(0, 5)
ListLimit == 5
CardList(formatted) == SubSeq(formatted, 1, Min(ListLimit, Len(formatted)))

\* SearchResultsPresentation({ sessionData, formattedResults, error }); an
\* absent prop is null, an absent error the empty string.
SearchResultsPresentation(hasSession, hasResults, formatted, error) ==
    IF error # "" THEN ErrorDisplay(error)
    ELSE IF ~hasSession \/ ~hasResults THEN SearchResultsNotFound
    ELSE IF Len(formatted) = 0 THEN SearchResultsEmpty
    ELSE View("results", "People with high similarity", "", "",
              [list |-> CardList(formatted), temple |-> TempleRow(formatted)])

\* !sessionData.results || sessionData.results.length === 0
NoResultsIn(results) ==
    \/ results.kind = "missing"
    \/ results.kind = "array" /\ Len(results.items) = 0
    \/ results.kind = "string" /\ results.text = ""

SearchResultsContainer_emptyAsNotFound(sessionData) ==
    IF sessionData.body.kind # "object" \/ NoResultsIn(sessionData.body.results)
    THEN SearchResultsPresentation(FALSE, FALSE, <<>>, "The search result is not found")
    ELSE LET formattedResults == formatSearchResults(sessionData.body.results)
         IN  IF formattedResults.threw
             THEN SearchResultsPresentation(FALSE, FALSE, <<>>, "Failed to fetch the data")
             ELSE SearchResultsPresentation(TRUE, TRUE, formattedResults.value, "")

\* SearchResultsContainer({ sessionId }) after getSearchSessionResults
SearchResultsContainer(sessionData) ==
    IF sessionData.body.kind # "object"
    THEN SearchResultsPresentation(FALSE, FALSE, <<>>, "The search result is not found")
    ELSE IF NoResultsIn(sessionData.body.results)
    THEN SearchResultsPresentation(TRUE, TRUE, <<>>, "No search results were found")
    ELSE LET formattedResults == formatSearchResults(sessionData.body.results)
         IN  IF formattedResults.threw
             THEN SearchResultsPresentation(FALSE, FALSE, <<>>, "Failed to fetch the data")
             ELSE SearchResultsPresentation(TRUE, TRUE, formattedResults.value, "")

NoCall == [fn |-> "none", fetched |-> ReadNetworkFailure]

ReadIdle ==
    /\ readCall = NoCall
    /\ readResult = ReadNotCalled
    /\ display = NoDisplay

ReadInit == ReadIdle

Called(fn, f, result, shown) ==
    /\ readCall' = [fn |-> fn, fetched |-> f]
    /\ readResult' = result
    /\ display' = shown

GetRankingData ==
    \E f \in ReadAnswers(PlainBodies) :
        Called("getRankingData", f, getRankingData(f), NoDisplay)

GetActressList ==
    \E f \in ReadAnswers(PlainBodies) :
        Called("getActressList", f, getActressList(f), NoDisplay)

GetActressDetail ==
    \E f \in ReadAnswers(PlainBodies) :
        Called("getActressDetail", f, getActressDetail(f), NoDisplay)

GetProductsByPersonId ==
    \E f \in ReadAnswers(PlainBodies) :
        Called("getProductsByPersonId", f, getProductsByPersonId(f), NoDisplay)

\* The result page: SearchResultsContainer awaits getSearchSessionResults
\* and returns the presentation.
RenderSearchResults ==
    \E f \in ReadAnswers(SessionBodies) :
        LET sessionData == getSearchSessionResults(f)
        IN  Called("getSearchSessionResults", f, sessionData,
                   SearchResultsContainer(sessionData))

(***************************************************************************)
(* features/products: the product display                                  *)
(***************************************************************************)
\* The bodies of the products endpoint: products with their total_count.
ProductBodies ==
    {NotJsonBody, JsonNullBody}
    \cup {DataBody(ResultsArray(GoodResults(n)), FALSE) : n \in 0..MaxProducts}

\* NoProductsMessage, ErrorMessage, ProductsTitle
NoProductsText == "The related products of this actress cannot be fetched at present"
ProductsTitle(count) == IF count = 0 THEN "0 products were found" ELSE "products were found"

\* ProductsListPresentation({ productsData, className, error })
ProductsListPresentation(productsData, error) ==
    IF error # ""
    THEN View("ErrorMessage", "", error, "", NoCards)
    ELSE IF productsData.body.kind # "object"
    THEN View("NoProductsMessage", "", NoProductsText, "", NoCards)
    ELSE IF Len(productsData.body.results.items) = 0     \* total_count === 0
    THEN View("NoProductsMessage", ProductsTitle(0), NoProductsText, "", NoCards)
    ELSE View("ProductCardList", ProductsTitle(Len(productsData.body.results.items)), "",
              "", [list |-> [i \in 1..Len(productsData.body.results.items) |->
                                [id |-> i, rank |-> i]],
                   temple |-> <<>>])

\* ProductsContainer({ personId, limit, className }) after
\* getProductsByPersonId
ProductsContainer(productsData) ==
    IF productsData.kind = "throw"
    THEN ProductsListPresentation(ReadNull,
                                  "An error occurred while loading the product information")
    ELSE ProductsListPresentation(productsData, "")

\* The products area: ProductsContainer awaits getProductsByPersonId and
\* returns the presentation.
RenderProducts ==
    \E f \in ReadAnswers(ProductBodies) :
        LET productsData == getProductsByPersonId(f)
        IN  Called("getProductsByPersonId", f, productsData,
                   ProductsContainer(productsData))

(***************************************************************************)
(* lib/session-storage: the legacy result payload in sessionStorage        *)
(***************************************************************************)
\* sessionStorage under SEARCH_RESULTS_KEY: no item, or an item with a text.
NoItem == [present |-> FALSE, text |-> ""]
Item(text) == [present |-> TRUE, text |-> text]

\* What the tab may find under the key when the page starts: nothing, or any
\* text, left by this code or another.
StoredTexts == BodyTexts

\* The responses saveSearchResults is handed: what searchImage returns.
Payloads == {OkBody0, OkBody1}

\* JSON.stringify(data) of the value a text parses to
JSONStringify(j) == CHOOSE t \in BodyTexts : JSONParse(t).ok /\ JSONParse(t).value = j

\* completions of the helpers; data is written as its JSON text
StorageReturned(text) == [kind |-> "return", absent |-> FALSE, data |-> text, message |-> ""]
StorageNull == [kind |-> "return", absent |-> TRUE, data |-> "", message |-> ""]
StorageVoid == StorageNull
StorageThrew(message) == [kind |-> "throw", absent |-> FALSE, data |-> "", message |-> message]

\* saveSearchResults(data): setItem throws when the storage cannot be
\* accessed or is full
saveSearchResults(store, access, full, data) ==
    IF ~access \/ full
    THEN [store |-> store, result |-> StorageThrew("Error: failed to save the search results")]
    ELSE [store |-> Item(JSONStringify(data)), result |-> StorageVoid]

\* getSearchResults()
getSearchResults(store, access) ==
    IF ~access
    THEN StorageThrew("Error: failed to read the search results")
    ELSE IF ~store.present \/ store.text = ""            \* !storedResults
    THEN StorageNull
    ELSE LET parsed == JSONParse(store.text)
         IN  IF ~parsed.ok
             THEN StorageThrew("Error: failed to read the search results")
             ELSE IF ~searchSuccessResponseSchema(parsed.value)
             THEN StorageThrew("Error: failed to read the search results")
             ELSE StorageReturned(JSONStringify(parsed.value))

\* clearSearchResults(): an error of removeItem is logged, not raised
clearSearchResults(store, access) == IF access THEN NoItem ELSE store

getAndClearSearchResults_noClear(store, access) ==
    [store |-> store, result |-> getSearchResults(store, access)]

\* getAndClearSearchResults()
getAndClearSearchResults(store, access) ==
    LET results == getSearchResults(store, access)
    IN  IF results.kind = "throw"
        THEN [store |-> clearSearchResults(store, access), result |-> results]
        ELSE IF ~results.absent
        THEN [store |-> clearSearchResults(store, access), result |-> results]
        ELSE [store |-> store, result |-> results]

NoStorageOp == [op |-> "none", found |-> NoItem, result |-> StorageNull]
StorageOp(op, found, result) == [op |-> op, found |-> found, result |-> result]

StorageIdle ==
    /\ storage = NoItem
    /\ storageAccess = FALSE
    /\ storageOp = NoStorageOp
    /\ consumed = FALSE

\* A tab opens: the browser grants sessionStorage or refuses it, and the
\* storage is empty or holds some text.
StorageInit ==
    /\ storageAccess \in BOOLEAN
    /\ storage \in {NoItem} \cup (IF storageAccess THEN {Item(t) : t \in StoredTexts} ELSE {})
    /\ storageOp = NoStorageOp
    /\ consumed = FALSE

SaveSearchResults ==
    /\ \E text \in Payloads, full \in BOOLEAN :
         LET r == saveSearchResults(storage, storageAccess, full, JSONParse(text).value)
         IN  /\ storage' = r.store
             /\ storageOp' = StorageOp("saveSearchResults", storage, r.result)
             /\ consumed' = (IF r.result.kind = "return" THEN FALSE ELSE consumed)
    /\ UNCHANGED storageAccess

GetSearchResults ==
    /\ storageOp' = StorageOp("getSearchResults", storage,
                              getSearchResults(storage, storageAccess))
    /\ UNCHANGED <<storage, storageAccess, consumed>>

ClearSearchResults ==
    /\ storage' = clearSearchResults(storage, storageAccess)
    /\ storageOp' = StorageOp("clearSearchResults", storage, StorageVoid)
    /\ UNCHANGED <<storageAccess, consumed>>

GetAndClearSearchResults ==
    /\ LET r == getAndClearSearchResults(storage, storageAccess)
       IN  /\ storage' = r.store
           /\ storageOp' = StorageOp("getAndClearSearchResults", storage, r.result)
           /\ consumed' = (consumed \/ (r.result.kind = "return" /\ ~r.result.absent))
    /\ UNCHANGED storageAccess

(***************************************************************************)
(* scripts: the stale-artifact cleanup script (404 error images)           *)
(***************************************************************************)
\* The files of the model under DMM_DIR: where each is and how it is named.
Paths == {"a/products/product-1.jpg", "a/products/product-2.jpg",
          "a/products/cover.jpg", "a/base/product-3.jpg"}

\* find -path "*/products/*"
InProducts(p) == p \in {"a/products/product-1.jpg", "a/products/product-2.jpg",
                        "a/products/cover.jpg"}

\* find -name "$FILE_PATTERN", FILE_PATTERN="product-*.jpg"
MatchesPattern(p) == p \in {"a/products/product-1.jpg", "a/products/product-2.jpg",
                            "a/base/product-3.jpg"}

\* The sizes in bytes a file of the model has.
Sizes == {0, 2000, 4096, 5120, 6000}

Missing == [exists |-> FALSE, size |-> 0]
RegularFile(size) == [exists |-> TRUE, size |-> size]

\* MAX_SIZE, and the values the size option is given in the model.
DefaultMaxSize == "5k"
SizeArgs == {"1k", "3k"}

\* The number of a size argument: find reads "5k" as 5 units of 1024 bytes.
Units(maxSize) ==
    CASE maxSize = "1k" -> 1
      [] maxSize = "3k" -> 3
      [] maxSize = "5k" -> 5

KiB == 1024

\* find -size -N[k]: the size is rounded up to whole units, and the file
\* matches when it uses fewer than N of them.
SizeBelow(size, maxSize) == ((size + KiB - 1) \div KiB) < Units(maxSize)

\* find "$DMM_DIR" -path "*/products/*" -name "$FILE_PATTERN"
\*      -size "-${MAX_SIZE}" -type f
find(d, maxSize) ==
    {p \in Paths : /\ d[p].exists
                   /\ InProducts(p)
                   /\ MatchesPattern(p)
                   /\ SizeBelow(d[p].size, maxSize)}

\* The command lines of the model.
CommandLines ==
    {<<>>, <<"-d">>, <<"-f">>, <<"-h">>, <<"-x">>, <<"-s">>}
    \cup {<<"-s", k>> : k \in SizeArgs}
    \cup {<<"-s", k, "-d">> : k \in SizeArgs}
    \cup {<<"-s", k, "-f">> : k \in SizeArgs}
    \cup {<<"-d", "-s", k>> : k \in SizeArgs}
    \cup {<<"-f", "-s", k>> : k \in SizeArgs}

\* The option loop: each option is handled as it is read; -d and -f run
\* their function and exit at once, with MAX_SIZE as it is at that moment.
RECURSIVE ParseOptions(_, _)
ParseOptions(args, maxSize) ==
    IF args = <<>>
    THEN [mode |-> "main", maxSize |-> maxSize]
    ELSE CASE Head(args) = "-h" -> [mode |-> "show_help", maxSize |-> maxSize]
           [] Head(args) = "-s" ->
                IF Len(args) < 2
                THEN [mode |-> "error", maxSize |-> maxSize]   \* set -u: $2 is unbound
                ELSE ParseOptions(SubSeq(args, 3, Len(args)), args[2])
           [] Head(args) = "-d" -> [mode |-> "dry_run", maxSize |-> maxSize]
           [] Head(args) = "-f" -> [mode |-> "force_delete", maxSize |-> maxSize]
           [] OTHER -> [mode |-> "error", maxSize |-> maxSize]

\* TOTAL_SIZE=$((TOTAL_SIZE + size)) over the files of a loop
RECURSIVE TotalSize(_, _)
TotalSize(d, files) ==
    IF files = {}
    THEN 0
    ELSE LET p == CHOOSE q \in files : TRUE
         IN  d[p].size + TotalSize(d, files \ {p})

\* rm "$file": fails when the products directory cannot be written.
Removable(files, readonly) == IF readonly THEN {} ELSE files

\* The delete loop of main and force_delete over the lines of TEMP_FILE.
DeleteLoop(d, listed, readonly) ==
    LET present == {p \in listed : d[p].exists}          \* [ -f "$file" ]
        deleted == Removable(present, readonly)
    IN  [deleted |-> deleted,
         DELETED_COUNT |-> Cardinality(deleted),
         ERROR_COUNT |-> Cardinality(present \ deleted),
         TOTAL_SIZE |-> TotalSize(d, deleted),
         disk |-> [p \in Paths |-> IF p \in deleted THEN Missing ELSE d[p]]]

\* What one run of the script did and printed.
NoRun == [mode |-> "none", args |-> <<>>, maxSize |-> DefaultMaxSize, listed |-> {},
          FILE_COUNT |-> 0, deleted |-> {}, DELETED_COUNT |-> 0, ERROR_COUNT |-> 0,
          TOTAL_SIZE |-> 0, REMAINING_COUNT |-> 0, exit |-> 0]

Run(mode, args, maxSize, listed, loop, total, remaining, exit) ==
    [mode |-> mode, args |-> args, maxSize |-> maxSize, listed |-> listed,
     FILE_COUNT |-> Cardinality(listed), deleted |-> loop.deleted,
     DELETED_COUNT |-> loop.DELETED_COUNT, ERROR_COUNT |-> loop.ERROR_COUNT,
     TOTAL_SIZE |-> total, REMAINING_COUNT |-> remaining, exit |-> exit]

NoLoop == [deleted |-> {}, DELETED_COUNT |-> 0, ERROR_COUNT |-> 0, TOTAL_SIZE |-> 0]

\* main waits at "read -p": the list it found and the MAX_SIZE it runs with
NoPrompt == [asking |-> FALSE, args |-> <<>>, maxSize |-> DefaultMaxSize, listed |-> {}]

CleanupIdle ==
    /\ disk = [p \in Paths |-> Missing]
    /\ locked = FALSE
    /\ cleanup = NoRun
    /\ prompt = NoPrompt

\* The output tree as the script finds it: any files, of any of the sizes.
CleanupInit ==
    /\ disk \in [Paths -> {Missing} \cup {RegularFile(s) : s \in Sizes}]
    /\ locked \in BOOLEAN
    /\ cleanup = NoRun
    /\ prompt = NoPrompt

\* The acquisition pipeline stores a downloaded file.
AddFile ==
    /\ \E p \in Paths, s \in Sizes :
          /\ ~disk[p].exists
          /\ disk' = [disk EXCEPT ![p] = RegularFile(s)]
    /\ cleanup' = NoRun
    /\ UNCHANGED <<locked, prompt>>

\* -h, --help
ShowHelp ==
    /\ ~prompt.asking
    /\ \E args \in CommandLines :
          LET o == ParseOptions(args, DefaultMaxSize)
          IN  /\ o.mode = "show_help"
              /\ cleanup' = Run("show_help", args, o.maxSize, {}, NoLoop, 0, 0, 0)
    /\ UNCHANGED <<disk, locked, prompt>>

\* an unknown option, or -s without its value
BadOption ==
    /\ ~prompt.asking
    /\ \E args \in CommandLines :
          LET o == ParseOptions(args, DefaultMaxSize)
          IN  /\ o.mode = "error"
              /\ cleanup' = Run("error", args, o.maxSize, {}, NoLoop, 0, 0, 1)
    /\ UNCHANGED <<disk, locked, prompt>>

\* dry_run()
DryRun ==
    /\ ~prompt.asking
    /\ \E args \in CommandLines :
          LET o == ParseOptions(args, DefaultMaxSize)
              listed == find(disk, o.maxSize)
          IN  /\ o.mode = "dry_run"
              /\ cleanup' = Run("dry_run", args, o.maxSize, listed, NoLoop,
                                TotalSize(disk, listed), 0, 0)
    /\ UNCHANGED <<disk, locked, prompt>>

\* force_delete()
ForceDelete ==
    /\ ~prompt.asking
    /\ \E args \in CommandLines :
          LET o == ParseOptions(args, DefaultMaxSize)
              listed == find(disk, o.maxSize)
              loop == DeleteLoop(disk, listed, locked)
          IN  /\ o.mode = "force_delete"
              /\ disk' = loop.disk
              /\ cleanup' = Run("force_delete", args, o.maxSize, listed, loop,
                                loop.TOTAL_SIZE, 0, 0)
    /\ UNCHANGED <<locked, prompt>>

\* main(), up to the question: nothing found ends the run, otherwise the
\* list is printed and the script waits for the reply.
Main ==
    /\ ~prompt.asking
    /\ \E args \in CommandLines :
          LET o == ParseOptions(args, DefaultMaxSize)
              listed == find(disk, o.maxSize)
          IN  /\ o.mode = "main"
              /\ cleanup' = Run("main", args, o.maxSize, listed, NoLoop, 0, 0, 0)
              /\ prompt' = IF listed = {}
                           THEN NoPrompt
                           ELSE [asking |-> TRUE, args |-> args, maxSize |-> o.maxSize,
                                 listed |-> listed]
    /\ UNCHANGED <<disk, locked>>

\* main(), from the reply on: anything but y or Y cancels; otherwise the
\* listed files are removed and the tree is scanned again.
MainReply ==
    /\ prompt.asking
    /\ \E REPLY \in {"y", "Y", "", "n"} :
          IF REPLY \in {"y", "Y"}
          THEN LET loop == DeleteLoop(disk, prompt.listed, locked)
               IN  /\ disk' = loop.disk
                   /\ cleanup' = Run("main", prompt.args, prompt.maxSize, prompt.listed,
                                     loop, loop.TOTAL_SIZE,
                                     Cardinality(find(loop.disk, prompt.maxSize)), 0)
          ELSE /\ disk' = disk
               /\ cleanup' = Run("cancelled", prompt.args, prompt.maxSize,
                                 prompt.listed, NoLoop, 0, 0, 0)
    /\ prompt' = NoPrompt
    /\ UNCHANGED locked

(***************************************************************************)
(* features/actress-list: the person directory (/actresses)                *)
(***************************************************************************)
\* A JavaScript number of the directory: an integer, or NaN.
NaN == [nan |-> TRUE, n |-> 0]
Num(n) == [nan |-> FALSE, n |-> n]

\* The page query parameter, by what parseInt makes of its text:
\*   absent            the parameter is not in the URL
\*   empty             page=
\*   int n             the decimal text of n ("2", "0", "-1")
\*   intjunk n         the digits of n followed by other text ("2abc", "1.5")
\*   junk              text that does not start with a number ("abc", "NaN")
AbsentParam == [kind |-> "absent", n |-> 0]
EmptyParam == [kind |-> "empty", n |-> 0]
JunkParam == [kind |-> "junk", n |-> 0]
IntParam(n) == [kind |-> "int", n |-> n]
IntJunkParam(n) == [kind |-> "intjunk", n |-> n]

PageParams ==
    {AbsentParam, EmptyParam, JunkParam}
    \cup {IntParam(n) : n \in -1..MaxPage}
    \cup {IntJunkParam(n) : n \in 1..2}

\* Number.parseInt(text, 10)
parseInt(param) ==
    CASE param.kind = "int" -> Num(param.n)
      [] param.kind = "intjunk" -> Num(param.n)
      [] OTHER -> NaN

\* page.toString(), as handlePageChange writes it into the URL
toString(number) == IF number.nan THEN JunkParam ELSE IntParam(number.n)

\* searchParams.page || "1"
PageOrDefault(param) ==
    IF param.kind \in {"absent", "empty"} THEN IntParam(1) ELSE param

itemsPerPage == 20

\* const offset = (currentPage - 1) * itemsPerPage
OffsetOf(currentPage) ==
    IF currentPage.nan THEN NaN ELSE Num((currentPage.n - 1) * itemsPerPage)

\* The query getActressList puts in the URL: a parameter is appended when
\* its value is truthy, so 0 and NaN are left out.
NotSent == [sent |-> FALSE, n |-> 0]
Sent(n) == [sent |-> TRUE, n |-> n]
QueryNumber(number) ==
    IF number.nan \/ number.n = 0 THEN NotSent ELSE Sent(number.n)

ListQuery_pageAsOffset(apiParams) ==
    [limit |-> QueryNumber(apiParams.limit),
     offset |-> QueryNumber(IF apiParams.offset.nan
                            THEN NaN
                            ELSE Num(apiParams.offset.n + itemsPerPage)),
     search |-> apiParams.search,
     sort_by |-> apiParams.sort_by]

ListQuery(apiParams) ==
    [limit |-> QueryNumber(apiParams.limit),
     offset |-> QueryNumber(apiParams.offset),
     search |-> apiParams.search,
     sort_by |-> apiParams.sort_by]

\* Math.ceil(totalCount / itemsPerPage)
Ceil(n, d) == (n + d - 1) \div d

\* ActressListPresentation: what it shows.
ListView(kind, actresses, totalCount, currentPage, startItem, endItem) ==
    [kind |-> kind, actresses |-> actresses, totalCount |-> totalCount,
     currentPage |-> currentPage, startItem |-> startItem, endItem |-> endItem,
     totalPages |-> Ceil(totalCount, itemsPerPage)]

NoListView == ListView("none", 0, 0, Num(1), Num(1), Num(0))

ActressListPresentation(actresses, totalCount, currentPage, error) ==
    LET startItem == IF currentPage.nan THEN NaN
                     ELSE Num((currentPage.n - 1) * itemsPerPage + 1)
        endItem == IF currentPage.nan THEN NaN
                   ELSE Num(Min(currentPage.n * itemsPerPage, totalCount))
    IN  IF error
        THEN ListView("error", 0, totalCount, currentPage, startItem, endItem)
        ELSE IF actresses > 0
        THEN ListView("grid", actresses, totalCount, currentPage, startItem, endItem)
        ELSE ListView("empty", 0, totalCount, currentPage, startItem, endItem)

\* The pager of the grid: the pages its enabled buttons lead to.  A
\* comparison with NaN is false, so with a NaN page the previous and next
\* buttons are enabled and lead to NaN.
PagerTargets(view) ==
    IF view.kind # "grid" \/ view.totalPages <= 1
    THEN {}
    ELSE IF view.currentPage.nan
    THEN {NaN}
    ELSE LET c == view.currentPage.n
             t == view.totalPages
         IN  {Num(c - 1) : x \in {1} \cap (IF c > 1 THEN {1} ELSE {})}
             \cup {Num(1) : x \in {1} \cap (IF c > 2 THEN {1} ELSE {})}
             \cup {Num(c + 1) : x \in {1} \cap (IF c < t THEN {1} ELSE {})}
             \cup {Num(t) : x \in {1} \cap (IF c < t - 1 THEN {1} ELSE {})}

\* What the backend answers to the list request: a fetch outcome, and in
\* a conforming body the persons of the window and the total count.
TotalCounts == {0, 1, 20, 21, 45}
WindowSizes == {0, 1, 20}
ListAnswers ==
    {[fetched |-> f, persons |-> k, total_count |-> n] :
        f \in ReadAnswers({NotJsonBody, DataBody(NoResults, TRUE)}),
        k \in WindowSizes, n \in TotalCounts}

\* The person_id segment of the URL, by what parseInt makes of its text.
PersonIdParams ==
    {AbsentParam, EmptyParam, JunkParam}
    \cup {IntParam(n) : n \in -1..MaxPage}
    \cup {IntJunkParam(n) : n \in 0..1}

\* the negation of: Number.isNaN(personId) || personId <= 0
ValidPersonId_allowsZero(personId) == ~(personId.nan \/ personId.n < 0)

ValidPersonId(personId) == ~(personId.nan \/ personId.n <= 0)

NoDetailPage == [opened |-> FALSE, person_id |-> AbsentParam, view |-> "none",
                 products |-> "none", requests |-> {}]

DetailAnswers == ReadAnswers({NotJsonBody, DataBody(NoResults, FALSE)})

NoListRequest == [limit |-> NotSent, offset |-> NotSent, search |-> "", sort_by |-> ""]

DirectoryIdle ==
    /\ location = [page |-> AbsentParam, search |-> "", sort_by |-> ""]
    /\ listRequest = NoListRequest
    /\ listView = NoListView
    /\ detailPage = NoDetailPage

DirectoryInit == DirectoryIdle

\* The visitor opens /actresses with query parameters of their own,
\* leaving the page shown before.
OpenDirectory ==
    /\ \E pg \in PageParams, search \in {"", "ai"}, sort_by \in {"", "created_at"} :
          location' = [page |-> pg, search |-> search, sort_by |-> sort_by]
    /\ listRequest' = NoListRequest
    /\ listView' = NoListView
    /\ detailPage' = NoDetailPage

\* ActressListContainer: parses the parameters, calls getActressList and
\* returns the presentation.
ActressListContainer ==
    /\ listView = NoListView
    /\ \E answer \in ListAnswers :
          LET currentPage == parseInt(PageOrDefault(location.page))
              apiParams == [limit |-> Num(itemsPerPage),
                            offset |-> OffsetOf(currentPage),
                            search |-> location.search,
                            sort_by |-> IF location.sort_by = "" THEN "name"
                                        ELSE location.sort_by]
              response == getActressList(answer.fetched)
          IN  /\ listRequest' = ListQuery(apiParams)
              /\ listView' =
                    IF response.body.kind # "object"
                    THEN ActressListPresentation(0, 0, currentPage, TRUE)
                    ELSE ActressListPresentation(answer.persons, answer.total_count,
                                                 currentPage, FALSE)
    /\ UNCHANGED <<location, detailPage>>

\* handlePageChange(page): a button of the pager sets window.location.
HandlePageChange ==
    /\ \E pg \in PagerTargets(listView) :
          /\ ~pg.nan => pg.n <= MaxPage
          /\ location' = [location EXCEPT !.page = toString(pg)]
    /\ listRequest' = NoListRequest
    /\ listView' = NoListView
    /\ detailPage' = NoDetailPage

(***************************************************************************)
(* app/actress/[person_id]/page.tsx: the person detail page                *)
(***************************************************************************)
\* The visitor opens /actress/[person_id], leaving the page shown before.
\* ActressDetailPage: notFound() ends the render before the content is
\* mounted; otherwise ActressDetailContainer and ProductsContainer each
\* issue their request.
ActressDetailPage ==
    /\ \E person_id \in PersonIdParams, f \in DetailAnswers, g \in DetailAnswers :
          LET personId == parseInt(person_id)
              actress == getActressDetail(f)
              content == [opened |-> TRUE, person_id |-> person_id,
                          view |-> IF actress.kind = "throw" THEN "not-found"
                                   ELSE "ActressDetailPresentation",
                          products |-> ProductsContainer(getProductsByPersonId(g)).view,
                          requests |-> {[fn |-> "getActressDetail",
                                         personId |-> personId.n],
                                        [fn |-> "getProductsByPersonId",
                                         personId |-> personId.n]}]
              notFound == [opened |-> TRUE, person_id |-> person_id,
                           view |-> "not-found", products |-> "none", requests |-> {}]
          IN  detailPage' = IF ValidPersonId(personId) THEN content ELSE notFound
    /\ location' = [page |-> AbsentParam, search |-> "", sort_by |-> ""]
    /\ listRequest' = NoListRequest
    /\ listView' = NoListView

(***************************************************************************)
(* database_schema.sql: person_ranking, and the ledger operation           *)
(* bump_ranking that writes it                                             *)
(***************************************************************************)
\* The persons of the model.
Persons == {"X", "Y"}

\* win_count INTEGER DEFAULT 0
DefaultWinCount == 0

\* The rows of person_ranking with a person_id.
RowsOf(table, person_id) ==
    {i \in 1..Len(table) : table[i].person_id = person_id}

UniqueViolation_noConstraint(table, person_id) == FALSE

\* person_id INTEGER NOT NULL UNIQUE: an insert of a person_id the table
\* already holds is refused.
UniqueViolation(table, person_id) == RowsOf(table, person_id) # {}

\* A new row: ranking_id INTEGER PRIMARY KEY AUTOINCREMENT, the defaults.
NewRankingRow(table, person_id) ==
    [ranking_id |-> Len(table) + 1, person_id |-> person_id,
     win_count |-> DefaultWinCount, last_win_timestamp |-> 0]

\* bump_ranking(person_id): upserts the person's row, incrementing
\* win_count and setting last_win_timestamp to now.
bump_ranking(table, person_id, t) ==
    LET inserted == IF UniqueViolation(table, person_id)
                    THEN table
                    ELSE Append(table, NewRankingRow(table, person_id))
    IN  [i \in 1..Len(inserted) |->
            IF inserted[i].person_id = person_id
            THEN [inserted[i] EXCEPT !.win_count = @ + 1, !.last_win_timestamp = t]
            ELSE inserted[i]]

RankingIdle ==
    /\ person_ranking = <<>>
    /\ pendingBumps = [p \in Persons |-> 0]
    /\ wins = [p \in Persons |-> 0]
    /\ recorded = [p \in Persons |-> 0]
    /\ ledgerNow = 1

RankingInit == RankingIdle

\* The searches answered so far.
SearchesDone == wins["X"] + wins["Y"]

\* A search is answered with person p at rank 1; the ledger write is left
\* to be done after the response.
SearchWon ==
    /\ SearchesDone < MaxSearches
    /\ \E p \in Persons :
          /\ wins' = [wins EXCEPT ![p] = @ + 1]
          /\ pendingBumps' = [pendingBumps EXCEPT ![p] = @ + 1]
    /\ UNCHANGED <<person_ranking, recorded, ledgerNow>>

\* The ledger write of one answered search: bump_ranking for its winner.
BumpRanking ==
    /\ \E p \in Persons :
          /\ pendingBumps[p] > 0
          /\ pendingBumps' = [pendingBumps EXCEPT ![p] = @ - 1]
          /\ person_ranking' = bump_ranking(person_ranking, p, ledgerNow)
          /\ recorded' = [recorded EXCEPT ![p] = @ + 1]
    /\ ledgerNow' = ledgerNow + 1
    /\ UNCHANGED wins

\* The ledger write of one answered search fails: the failure is logged
\* and swallowed, the search stays answered.
LedgerWriteFails ==
    /\ \E p \in Persons :
          /\ pendingBumps[p] > 0
          /\ pendingBumps' = [pendingBumps EXCEPT ![p] = @ - 1]
    /\ UNCHANGED <<person_ranking, wins, recorded, ledgerNow>>

(***************************************************************************)
(* scripts/cleanup_empty_dmm_dirs.sh                                       *)
(***************************************************************************)
\* The directories below DMM_DIR.
DirNames == {"a", "b", "c"}

\* What a directory is: absent, holding entries, empty, or empty inside a
\* parent that refuses the removal (rmdir fails).
DirStates == {"absent", "entries", "empty", "held"}

\* find "$DMM_DIR" -mindepth 1 -type d -empty
findEmpty(tree) == {d \in DirNames : tree[d] \in {"empty", "held"}}

\* rmdir "$dir" 2>/dev/null succeeds for an empty directory that can be removed.
rmdir(tree, d) == tree[d] = "empty"

\* echo "$EMPTY_DIRS" | while read -r dir; do ... done: the loop is the last
\* command of a pipeline and runs in a subshell, on a copy of the shell's
\* variables; the removals reach the disk, the counters are the subshell's.
PipedLoop(tree, listed, shellVars) ==
    LET removed == {d \in listed : rmdir(tree, d)}
        failed == listed \ removed
    IN  [tree |-> [d \in DirNames |-> IF d \in removed THEN "absent" ELSE tree[d]],
         removed |-> removed,
         failed |-> failed,
         subshell |-> [shellVars EXCEPT
                          !.DELETED_COUNT = @ + Cardinality(removed),
                          !.ERROR_COUNT = @ + Cardinality(failed)]]

\* DELETED_COUNT=0; ERROR_COUNT=0
ZeroCounts == [DELETED_COUNT |-> 0, ERROR_COUNT |-> 0]

NoSweep == [mode |-> "none"]

Sweep(mode, listed, loop, shellVars, remaining) ==
    [mode |-> mode, listed |-> listed, removed |-> loop.removed,
     failed |-> loop.failed, reportedDeleted |-> shellVars.DELETED_COUNT,
     reportedFailed |-> shellVars.ERROR_COUNT, remaining |-> remaining]

NoPipedLoop == [removed |-> {}, failed |-> {}]

\* What read -p leaves in REPLY.
Replies == {"y", "Y", "N", ""}

SweepIdle ==
    /\ dmm = [d \in DirNames |-> "absent"]
    /\ sweep = NoSweep

SweepInit ==
    /\ dmm \in [DirNames -> DirStates]
    /\ sweep = NoSweep

\* Something else changes a directory between two runs.
ChangeDir ==
    /\ \E d \in DirNames, st \in DirStates :
          /\ dmm[d] # st
          /\ dmm' = [dmm EXCEPT ![d] = st]
    /\ sweep' = NoSweep

\* cleanup_empty_dmm_dirs.sh --dry-run
dry_run ==
    /\ sweep' = Sweep("dry-run", findEmpty(dmm), NoPipedLoop, ZeroCounts,
                      Cardinality(findEmpty(dmm)))
    /\ UNCHANGED dmm

\* cleanup_empty_dmm_dirs.sh --force
force_delete ==
    LET EMPTY_DIRS == findEmpty(dmm)
        shellVars == ZeroCounts
        loop == PipedLoop(dmm, EMPTY_DIRS, shellVars)
    IN  IF EMPTY_DIRS = {}
        THEN /\ sweep' = Sweep("force-nothing", {}, NoPipedLoop, ZeroCounts, 0)
             /\ UNCHANGED dmm
        ELSE /\ dmm' = loop.tree
             /\ sweep' = Sweep("force", EMPTY_DIRS, loop, shellVars,
                               Cardinality(findEmpty(loop.tree)))

\* cleanup_empty_dmm_dirs.sh without options, and the reply to its question
main ==
    LET EMPTY_DIRS == findEmpty(dmm)
        shellVars == ZeroCounts
        loop == PipedLoop(dmm, EMPTY_DIRS, shellVars)
    IN  IF EMPTY_DIRS = {}
        THEN /\ sweep' = Sweep("interactive-nothing", {}, NoPipedLoop, ZeroCounts, 0)
             /\ UNCHANGED dmm
        ELSE \E REPLY \in Replies :
                IF REPLY \notin {"y", "Y"}
                THEN /\ sweep' = Sweep("cancelled", EMPTY_DIRS, NoPipedLoop, ZeroCounts,
                                       Cardinality(EMPTY_DIRS))
                     /\ UNCHANGED dmm
                ELSE /\ dmm' = loop.tree
                     /\ sweep' = Sweep("interactive", EMPTY_DIRS, loop, shellVars,
                                       Cardinality(findEmpty(loop.tree)))

(***************************************************************************)
(* Specifications                                                          *)
(***************************************************************************)
\* The gate before any page of the site has been requested.
GateIdle ==
    /\ cookie = NoCookie
    /\ now = 0
    /\ page = "none"
    /\ ageVerified = FALSE
    /\ showModal = FALSE
    /\ isPending = FALSE
    /\ isVisible = FALSE
    /\ effectQueued = FALSE
    /\ inflight = "none"
    /\ orphaned = FALSE
    /\ declineResult = NotCalled
    /\ confirmResult = NotCalled
    /\ gateLog = NoLog

GateNext ==
    \/ PageLoad /\ UNCHANGED offGate
    \/ RunEffect /\ UNCHANGED offGate
    \/ ClickYes /\ UNCHANGED offGate
    \/ ClickNo /\ UNCHANGED offGate
    \/ ConfirmSettles /\ UNCHANGED offGate
    \/ DeclineSettles /\ UNCHANGED offGate
    \/ Tick /\ UNCHANGED offGate

\* Only the gate runs: the upload widget is not mounted, nothing is read.
InitGate == GateInit /\ UploadIdle /\ ReadIdle /\ StorageIdle /\ CleanupIdle /\ DirectoryIdle
    /\ RankingIdle /\ SweepIdle

SpecGate == InitGate /\ [][GateNext]_vars

UploadNext ==
    \/ CheckClipboardSupport /\ UNCHANGED offUpload
    \/ PickFile /\ UNCHANGED offUpload
    \/ DragOver /\ UNCHANGED offUpload
    \/ DragLeave /\ UNCHANGED offUpload
    \/ Drop /\ UNCHANGED offUpload
    \/ PasteStart /\ UNCHANGED offUpload
    \/ PasteRejected /\ UNCHANGED offUpload
    \/ PasteNoImage /\ UNCHANGED offUpload
    \/ PasteImage /\ UNCHANGED offUpload
    \/ Submit /\ UNCHANGED offUpload
    \/ SearchSettles /\ UNCHANGED offUpload
    \/ Classify /\ UNCHANGED offUpload

\* Only the upload widget runs.
InitUpload == UploadInit /\ GateIdle /\ ReadIdle /\ StorageIdle /\ CleanupIdle /\ DirectoryIdle
    /\ RankingIdle /\ SweepIdle

SpecUpload == InitUpload /\ [][UploadNext]_vars

ReadNext ==
    \/ GetRankingData /\ UNCHANGED offRead
    \/ GetActressList /\ UNCHANGED offRead
    \/ GetActressDetail /\ UNCHANGED offRead
    \/ GetProductsByPersonId /\ UNCHANGED offRead
    \/ RenderSearchResults /\ UNCHANGED offRead
    \/ RenderProducts /\ UNCHANGED offRead

\* Only the read-access layer and the result page run.
InitRead == ReadInit /\ GateIdle /\ UploadIdle /\ StorageIdle /\ CleanupIdle /\ DirectoryIdle
    /\ RankingIdle /\ SweepIdle

SpecRead == InitRead /\ [][ReadNext]_vars

StorageNext ==
    \/ SaveSearchResults /\ UNCHANGED offStorage
    \/ GetSearchResults /\ UNCHANGED offStorage
    \/ ClearSearchResults /\ UNCHANGED offStorage
    \/ GetAndClearSearchResults /\ UNCHANGED offStorage

\* Only the sessionStorage helper runs.
InitStorage == StorageInit /\ GateIdle /\ UploadIdle /\ ReadIdle /\ CleanupIdle /\ DirectoryIdle
    /\ RankingIdle /\ SweepIdle

SpecStorage == InitStorage /\ [][StorageNext]_vars

CleanupNext ==
    \/ AddFile /\ UNCHANGED offCleanup
    \/ ShowHelp /\ UNCHANGED offCleanup
    \/ BadOption /\ UNCHANGED offCleanup
    \/ DryRun /\ UNCHANGED offCleanup
    \/ ForceDelete /\ UNCHANGED offCleanup
    \/ Main /\ UNCHANGED offCleanup
    \/ MainReply /\ UNCHANGED offCleanup

InitCleanup == CleanupInit /\ GateIdle /\ UploadIdle /\ ReadIdle /\ StorageIdle /\ DirectoryIdle
    /\ RankingIdle /\ SweepIdle

SpecCleanup == InitCleanup /\ [][CleanupNext]_vars

DirectoryNext ==
    \/ OpenDirectory /\ UNCHANGED offDirectory
    \/ ActressListContainer /\ UNCHANGED offDirectory
    \/ HandlePageChange /\ UNCHANGED offDirectory
    \/ ActressDetailPage /\ UNCHANGED offDirectory

InitDirectory ==
    DirectoryInit /\ GateIdle /\ UploadIdle /\ ReadIdle /\ StorageIdle /\ CleanupIdle
    /\ RankingIdle /\ SweepIdle

SpecDirectory == InitDirectory /\ [][DirectoryNext]_vars

RankingNext ==
    \/ SearchWon /\ UNCHANGED offRanking
    \/ BumpRanking /\ UNCHANGED offRanking
    \/ LedgerWriteFails /\ UNCHANGED offRanking

InitRanking ==
    RankingInit /\ GateIdle /\ UploadIdle /\ ReadIdle /\ StorageIdle /\ CleanupIdle
    /\ DirectoryIdle /\ SweepIdle

SpecRanking == InitRanking /\ [][RankingNext]_vars

SweepNext ==
    \/ ChangeDir /\ UNCHANGED offSweep
    \/ dry_run /\ UNCHANGED offSweep
    \/ force_delete /\ UNCHANGED offSweep
    \/ main /\ UNCHANGED offSweep

InitSweep ==
    SweepInit /\ GateIdle /\ UploadIdle /\ ReadIdle /\ StorageIdle /\ CleanupIdle
    /\ DirectoryIdle /\ RankingIdle

SpecSweep == InitSweep /\ [][SweepNext]_vars

(***************************************************************************)
(* Properties of the age-verification gate                                 *)
(***************************************************************************)

\* C1: every completed call of the decline action ended in a redirect to the
\* external destination, whether clearing the cookie succeeded or threw; the
\* action never returns and never fails with anything else.
C1_DeclineAlwaysRedirects ==
    declineResult.kind # "none" =>
        /\ declineResult.kind = "throw"
        /\ declineResult.what = "NEXT_REDIRECT"
        /\ declineResult.url = REDIRECT_URL

\* a decline whose clear threw has completed (and the cookie it could not
\* clear is still there)
C1_Witness ==
    /\ declineResult.kind # "none"
    /\ gateLog.clearThrew
    /\ cookie.present

\* C2 (as claimed): whenever the gate is Unverified, the overlay is rendered.
C2_OverlayWheneverUnverified ==
    (page = "site" /\ Unverified) => OverlayRendered

\* C2 (amended): on a page that was loaded Unverified and on which no confirm
\* has succeeded, the overlay is rendered once the page's effects have run,
\* except while a confirm or decline request of that page is pending.
C2_OverlayWhenSettled ==
    (/\ page = "site"
     /\ ~ageVerified
     /\ ~gateLog.pageConfirmed
     /\ ~effectQueued
     /\ (inflight = "none" \/ orphaned))
        => OverlayRendered

\* the overlay is back after a confirm that failed
C2_Witness ==
    /\ page = "site"
    /\ ~ageVerified
    /\ confirmResult.kind = "throw"
    /\ inflight = "none"
    /\ ~effectQueued
    /\ OverlayRendered

\* C3 (as claimed): a page load evaluates the gate to Verified if and only if
\* the cookie is present with the marker as its value.
C3_VerifiedIffMarker ==
    page = "site" =>
        (ageVerified <=> (gateLog.loadCookie.found
                          /\ gateLog.loadCookie.value = "confirmed"))

\* C3 (amended): a page load evaluates the gate to Verified if and only if the
\* cookie store could be read and the cookie is present with the marker as its
\* value; an absent cookie, any other value, and a failed read are Unverified.
C3_VerifiedIffReadableMarker ==
    page = "site" =>
        (ageVerified <=> (/\ ~gateLog.loadReadThrows
                          /\ gateLog.loadCookie.found
                          /\ gateLog.loadCookie.value = "confirmed"))

\* a load that found a cookie holding something else than the marker
C3_Witness ==
    /\ page = "site"
    /\ ~gateLog.loadReadThrows
    /\ gateLog.loadCookie.found
    /\ gateLog.loadCookie.value # "confirmed"
    /\ ~ageVerified

\* The current page was loaded after a successful confirm, within the
\* cookie's lifetime, with no decline in between, in a browser that started
\* without a consent cookie.
LoadedAfterConfirm ==
    /\ page = "site"
    /\ ~gateLog.startCookie
    /\ gateLog.loadConfirmAt >= 0
    /\ ~gateLog.loadDeclined
    /\ gateLog.loadAt < gateLog.loadConfirmAt + 365 * 24 * 60 * 60

\* C4 (as claimed): every page load after a successful confirm, within the
\* one-year lifetime and with no decline in between, is Verified and is
\* rendered without the gate.
C4_VerifiedAfterConfirm ==
    LoadedAfterConfirm => (ageVerified /\ ~showModal /\ ~OverlayRendered)

\* C4 (amended): ... every such page load that could read the cookie store
\* is Verified and is rendered without the gate.
C4_VerifiedAfterConfirmIfReadable ==
    (LoadedAfterConfirm /\ ~gateLog.loadReadThrows)
        => (ageVerified /\ ~showModal /\ ~OverlayRendered)

\* a load one second before the cookie set by the confirm expires
C4_Witness ==
    /\ LoadedAfterConfirm
    /\ ~gateLog.loadReadThrows
    /\ gateLog.loadAt = gateLog.loadConfirmAt + 365 * 24 * 60 * 60 - 1
    /\ ageVerified

\* C16: when the confirm action fails, the step that settles it on the page
\* that asked leaves the cookie as it was and the modal open with its effect
\* queued, and the effect that then runs displays the overlay again, with
\* nothing in flight: the visitor can answer a second time.
C16_FailedConfirmKeepsOverlay ==
    [][/\ (inflight = "confirm" /\ inflight' = "none" /\ ~orphaned
           /\ confirmResult'.kind = "throw")
             => /\ cookie' = cookie
                /\ page' = "site"
                /\ showModal'
                /\ ~isPending'
                /\ isOpen(showModal', isPending')
                /\ effectQueued'
       /\ (effectQueued /\ ~effectQueued' /\ page' = "site" /\ inflight' = "none"
           /\ confirmResult.kind = "throw" /\ showModal /\ ~isPending)
             => OverlayRendered']_vars

\* C16 happens: a confirm has failed and settled, no confirm has ever
\* succeeded, and the overlay is displayed again with nothing in flight.
C16_Witness ==
    /\ confirmResult.kind = "throw"
    /\ gateLog.confirmAt = -1
    /\ page = "site"
    /\ inflight = "none"
    /\ ~effectQueued
    /\ ~isPending
    /\ showModal
    /\ OverlayRendered
    /\ Unverified

(***************************************************************************)
(* Properties of the upload widget, the search action and the taxonomy     *)
(***************************************************************************)

\* A file the widget has to refuse: more than 500 x 1024 bytes, or a declared
\* type that does not begin with "image/".
Refusable(file) ==
    \/ file.size > 500 * 1024
    \/ Len(file.type) < 6
    \/ SubSeq(file.type, 1, 6) # <<"i", "m", "a", "g", "e", "/">>

\* C5: a file larger than 500KB, or whose declared type does not begin with an
\* image type, is refused however it arrives (picker, drop, paste): it is
\* never the selected file and never the file handed to the search action.
C5_RefusedNeverSelectedNorSent ==
    /\ selectedImage # NoFile => ~Refusable(selectedImage)
    /\ request # NoFile => ~Refusable(request)
    /\ (lastOffer.via # "none" /\ (lastOffer.tooLarge \/ lastOffer.notImage))
          => ~lastOffer.accepted

\* C5 happens: a file of more than 500KB arrived by paste while a search was
\* in flight, and was refused.
C5_Witness ==
    /\ lastOffer.via = "paste"
    /\ lastOffer.tooLarge
    /\ ~lastOffer.accepted
    /\ isSearching
    /\ request # NoFile

\* The search endpoint answered the latest search with a non-success status.
NonSuccess == lastFetched.kind = "response" /\ ~ResponseOk(lastFetched.status)

\* The body of the latest answer is a structured error with a known code.
StructuredError ==
    /\ lastFetched.bodyRead
    /\ JSONParse(lastFetched.text).ok
    /\ isErrorResponse(JSONParse(lastFetched.text).value)

BodyCode == JSONParse(lastFetched.text).value.v["error"].v["code"].v

C9_UnknownCodeFallsBackToUnknown ==
    /\ (classified.applied /\ classified.code \notin ErrorCodes) =>
          /\ classified.message = getErrorMessage("UNKNOWN_ERROR")
          /\ classified.severity = getErrorType("UNKNOWN_ERROR")
    /\ (lastDone.kind = "throw" /\ lastDone.message \notin ErrorCodes) =>
          lastToasts = <<Toast("error", getErrorMessage("UNKNOWN_ERROR"))>>

\* C10: every code of the taxonomy has a non-empty message and a severity
\* that is warning or error.
C10_EveryCodeHasMessageAndSeverity ==
    (classified.applied /\ classified.code \in ErrorCodes) =>
        /\ classified.message # UNDEFINED
        /\ classified.message # ""
        /\ classified.severity \in {"warning", "error"}

\* C10 happens: the last code of the taxonomy was classified.
C10_Witness ==
    /\ classified.applied
    /\ classified.code = "SESSION_NOT_FOUND"
    /\ classified.severity = "error"
    /\ classified.message = "The search result was not found"

\* C11: when a submitted search fails, the step that settles it raises one
\* error notification with a close button and leaves the selected file and
\* its preview as they were, so that the search can be submitted again (a
\* file is selected and no search is running).
C11_FailedSearchKeepsSelection ==
    [][(isSearching /\ ~isSearching' /\ lastDone'.kind = "throw") =>
          /\ selectedImage' = selectedImage
          /\ previewUrl' = previewUrl
          /\ selectedImage' # NoFile
          /\ previewUrl' = createObjectURL(selectedImage')
          /\ Len(lastToasts') = 1
          /\ lastToasts'[1].level = "error"
          /\ lastToasts'[1].closeButton]_vars

\* C11 happens: a search of the selected file has just failed with a server
\* error and the file is still selected, with its preview.
C11_Witness ==
    /\ lastDone = SearchResultError("SERVER_ERROR")
    /\ lastToasts = <<Toast("error", "A server error occurred")>>
    /\ ~isSearching
    /\ selectedImage # NoFile
    /\ previewUrl = createObjectURL(selectedImage)

\* The search endpoint answered the latest search with a success status and
\* the body text was received.
SuccessAnswer ==
    /\ lastFetched.kind = "response"
    /\ ResponseOk(lastFetched.status)
    /\ lastFetched.bodyRead

\* The body of the latest answer is JSON of the expected response shape.
ConformingBody ==
    /\ JSONParse(lastFetched.text).ok
    /\ searchSuccessResponseSchema(JSONParse(lastFetched.text).value)

\* C15 as stated: a success status with a body that does not conform to the
\* expected response shape makes the search action raise the typed error
\* UNKNOWN_ERROR, and nothing is returned.
C15_NonConformingSuccessRaisesUnknown ==
    (SuccessAnswer /\ ~ConformingBody) => lastDone = SearchResultError("UNKNOWN_ERROR")

\* C15 as the code has it: a success status with a body that is JSON but not
\* of the expected response shape raises the typed error UNKNOWN_ERROR; with
\* a body that is empty or no JSON it raises the typed error SERVER_ERROR;
\* in both cases nothing is returned.
C15_NonConformingSuccessRaisesUnknownOrServerError ==
    (SuccessAnswer /\ ~ConformingBody) =>
        lastDone = (IF lastFetched.text = "" \/ ~JSONParse(lastFetched.text).ok
                    THEN SearchResultError("SERVER_ERROR")
                    ELSE SearchResultError("UNKNOWN_ERROR"))

\* C15 happens: a 200 whose JSON body has none of the expected fields was
\* answered with the typed error UNKNOWN_ERROR.
C15_Witness ==
    /\ lastFetched.kind = "response"
    /\ lastFetched.status = 200
    /\ lastFetched.text = InvalidBody
    /\ lastDone = SearchResultError("UNKNOWN_ERROR")
    /\ route = "/"

\* The submit button is enabled: disabled={!selectedImage || isSearching}.
SubmitEnabled == selectedImage # NoFile /\ ~isSearching

\* In this step a gesture offered a file that passes validation: at most
\* 500KB and a declared type that begins with image/.
OfferedValidFile ==
    /\ lastOffer'.via # "none"
    /\ ~lastOffer'.tooLarge
    /\ ~lastOffer'.notImage

\* C24 as stated: every file that passes validation becomes the selected
\* file with a rendered preview, and the search action becomes available
\* for it.
C24_ValidFileSelectedAndSearchable ==
    [][OfferedValidFile =>
          /\ lastOffer'.accepted
          /\ selectedImage' = lastOffer'.file
          /\ previewUrl' = createObjectURL(selectedImage')
          /\ SubmitEnabled']_vars

\* C24 amended: every file that passes validation becomes the selected
\* file with a rendered preview; the search action is available for it at
\* once when no search is pending, and otherwise (a paste that was started
\* before the search completes during it) from the step that settles the
\* pending search.
C24_ValidFileSelectedAndSearchableWhenIdle ==
    [][/\ OfferedValidFile =>
            /\ lastOffer'.accepted
            /\ selectedImage' = lastOffer'.file
            /\ previewUrl' = createObjectURL(selectedImage')
            /\ SubmitEnabled' <=> ~isSearching'
       /\ (isSearching /\ ~isSearching' /\ selectedImage # NoFile) =>
            /\ selectedImage' = selectedImage
            /\ SubmitEnabled']_vars

\* C24 witness: a pasted file of exactly 500KB was accepted while no search
\* was pending; it is selected, previewed and can be submitted.
C24_Witness ==
    /\ lastOffer.via = "paste"
    /\ lastOffer.accepted
    /\ selectedImage = lastOffer.file
    /\ selectedImage.size = maxSizeBytes
    /\ previewUrl = createObjectURL(selectedImage)
    /\ SubmitEnabled

\* C26: while a search submission is pending the widget starts no second
\* search request, whatever submit, drop, paste or picker gestures occur
\* before it settles: the request in flight stays the one it is until the
\* step that settles it.
C26_NoSecondRequestWhilePending ==
    [][(isSearching /\ request # NoFile) =>
          \/ request' = request /\ isSearching'
          \/ request' = NoFile /\ ~isSearching']_vars

\* C26 witness: a search is pending and a paste has just selected another
\* file; the request in flight is still the first one.
C26_Witness ==
    /\ isSearching
    /\ request # NoFile
    /\ lastOffer.via = "paste"
    /\ lastOffer.accepted
    /\ selectedImage # request

\* C27: when the request to the search endpoint fails at the transport
\* level (no response at all), the search action raises a typed error that
\* carries one of the known codes, so the widget shows the message of a
\* recognized code.
C27_TransportFailureRaisesKnownCode ==
    lastFetched.kind = "network" =>
        /\ lastDone.kind = "throw"
        /\ lastDone.name = "SearchResultError"
        /\ lastDone.message \in ErrorCodes
        /\ lastToasts = <<Toast("error", getErrorMessage(lastDone.message))>>

\* C28: a success notice for a clipboard paste is shown only when the
\* pasted image was accepted as the selected file; when the size / type
\* validation rejects it, the rejection notice is the only notice.
C28_PasteSuccessNoticeOnlyWhenAccepted ==
    lastOffer.via = "paste" =>
        /\ (\E i \in 1..Len(lastToasts) : lastToasts[i].level = "success")
              => lastOffer.accepted
        /\ ~lastOffer.accepted
              => /\ Len(lastToasts) = 1
                 /\ lastToasts[1].level = "error"

(***************************************************************************)
(* Properties of the read-access layer and the result display              *)
(***************************************************************************)

\* The latest read failed: no answer, a non-success status, or a body that
\* is no JSON.
ReadFailed ==
    \/ readCall.fetched.kind = "network"
    \/ ~ResponseOk(readCall.fetched.status)
    \/ readCall.fetched.body.kind = "notjson"

\* The call returned an absent value (null).
ReturnedAbsent == readResult.kind = "return" /\ readResult.body.kind = "null"

\* C6 as stated: no read-access function (ranking, person list, person
\* detail, products, session results) ever throws to its caller, and on any
\* failure it returns an absent value.
C6_ReadsNeverThrow ==
    readCall.fn # "none" =>
        /\ readResult.kind # "throw"
        /\ ReadFailed => ReturnedAbsent

\* C6 as the code has it: ranking, person list, products and session results
\* never throw and return an absent value on any failure; person detail
\* throws on every failure.
C6_ReadsNeverThrowButPersonDetail ==
    /\ readCall.fn \notin {"none", "getActressDetail"} =>
          /\ readResult.kind = "return"
          /\ ReadFailed => ReturnedAbsent
    /\ (readCall.fn = "getActressDetail" /\ ReadFailed) => readResult.kind = "throw"

\* C6 happens: the products read got a 500 and returned the absent value.
C6_Witness ==
    /\ readCall.fn = "getProductsByPersonId"
    /\ readCall.fetched.kind = "response"
    /\ readCall.fetched.status = 500
    /\ ReturnedAbsent

\* The result page was rendered by the latest step.
Rendered == readCall.fn = "getSearchSessionResults" /\ display # NoDisplay

\* The outcome a visitor can tell from the copy on the result page.
Outcome ==
    CASE display.view = "results" -> "success"
      [] display.text = "The search result is not found" -> "not found"
      [] display.view = "SearchResultsNotFound" -> "not found"
      [] display.text = "No search results were found" -> "empty"
      [] display.view = "SearchResultsEmpty" -> "empty"
      [] display.text = "Failed to fetch the data" -> "error"
      [] OTHER -> "other"

\* The backend answered 200 with a session object.
SessionFetched ==
    /\ readCall.fetched.kind = "response"
    /\ ResponseOk(readCall.fetched.status)
    /\ readCall.fetched.body.kind = "object"

\* C8 as stated: the result display ends in exactly one of four outcomes:
\* success, not found (invalid or expired session id: a 404), empty (a
\* session with zero results) or error (the fetch itself failed); each of
\* the three non-success outcomes has its own copy and a link back to the
\* upload page.
C8_FourOutcomes ==
    Rendered =>
        /\ Outcome \in {"success", "not found", "empty", "error"}
        /\ Outcome # "success" => display.href = "/"
        /\ (readCall.fetched.kind = "response" /\ readCall.fetched.status = 404)
              => Outcome = "not found"
        /\ (readCall.fetched.kind = "network"
            \/ (readCall.fetched.kind = "response"
                /\ readCall.fetched.status \in {400, 500}))
              => Outcome = "error"
        /\ (SessionFetched /\ NoResultsIn(readCall.fetched.body.results))
              => Outcome = "empty"

\* C8 as the code has it: exactly one of four outcomes, each non-success one
\* with its own copy and a link back to the upload page: not found whenever
\* the read gave no session (404, any other non-success status, no answer,
\* a body that is no object), empty for a session with no results, error
\* only when formatting the results of a fetched session throws, and success
\* otherwise.
C8_FourOutcomesByReadResult ==
    Rendered =>
        /\ Outcome \in {"success", "not found", "empty", "error"}
        /\ Outcome # "success" => (display.href = "/" /\ display.view = "ErrorDisplay")
        /\ ~SessionFetched => Outcome = "not found"
        /\ (SessionFetched /\ NoResultsIn(readCall.fetched.body.results))
              => Outcome = "empty"
        /\ (SessionFetched /\ ~NoResultsIn(readCall.fetched.body.results))
              => Outcome = (IF formatSearchResults(readCall.fetched.body.results).threw
                            THEN "error" ELSE "success")

\* C8 happens: the fetch itself failed and the page shows the copy of the
\* not found outcome with the link back.
C8_Witness ==
    /\ Rendered
    /\ readCall.fetched.kind = "network"
    /\ Outcome = "not found"
    /\ display.href = "/"

\* The body of the latest read has the shape its function expects: a
\* session is an object whose results are an array of result objects, a
\* person list an object with its persons.
ConformsToSchema ==
    /\ readCall.fetched.body.kind = "object"
    /\ readCall.fn = "getSearchSessionResults" =>
          /\ readCall.fetched.body.results.kind = "array"
          /\ \A i \in 1..Len(readCall.fetched.body.results.items) :
                ~readCall.fetched.body.results.items[i].isNull
    /\ readCall.fn = "getActressList" => readCall.fetched.body.persons

\* C14: a read-access call that receives a success status with a body that
\* does not conform to the expected schema returns the absent value; such a
\* body is never handed to the caller as data.
C14_NonConformingBodyIsAbsent ==
    (/\ readCall.fn \in {"getSearchSessionResults", "getActressList"}
     /\ readCall.fetched.kind = "response"
     /\ ResponseOk(readCall.fetched.status)
     /\ ~ConformsToSchema)
        => ReturnedAbsent

\* The results of the session the result page was rendered from.
SessionResults == readCall.fetched.body.results.items

\* The first n results as cards: the id and the rank of each, in their order.
FirstCards(n) ==
    [i \in 1..n |-> [id |-> SessionResults[i].person_id, rank |-> SessionResults[i].rank]]

\* The cards of a sequence, as a set.
CardSet(cards) == {cards[k] : k \in 1..Len(cards)}

ProductsRendered == readCall.fn = "getProductsByPersonId" /\ display # NoDisplay

\* The message the products area shows when the gateway returned zero
\* products.
ZeroProductsMessage ==
    ProductsContainer(ReadReturned(DataBody(ResultsArray(<<>>), FALSE))).text

\* C18: the products area shows one message for zero products and another,
\* the error-state message, when the fetch itself failed (non-success
\* status or network failure): the two are never the same message.
C18_EmptyAndErrorMessagesDiffer ==
    ProductsRendered =>
        /\ (readCall.fetched.kind = "response" /\ ResponseOk(readCall.fetched.status)
            /\ readCall.fetched.body.kind = "object"
            /\ Len(readCall.fetched.body.results.items) = 0)
              => display.text = ZeroProductsMessage
        /\ (readCall.fetched.kind = "network" \/ ~ResponseOk(readCall.fetched.status))
              => /\ display.view = "ErrorMessage"
                 /\ display.text # ZeroProductsMessage

(***************************************************************************)
(* Properties of the sessionStorage helper                                 *)
(***************************************************************************)

Corrupt(item) ==
    /\ item.present
    /\ \/ ~JSONParse(item.text).ok
       \/ ~searchSuccessResponseSchema(JSONParse(item.text).value)

\* C13: reading a stored payload that is no valid JSON or not of the expected
\* shape raises an error: it is neither reported as absent nor returned.
C13_CorruptPayloadRaises ==
    (storageOp.op \in {"getSearchResults", "getAndClearSearchResults"}
     /\ Corrupt(storageOp.found))
        => storageOp.result.kind = "throw"

(***************************************************************************)
(* Properties of the stale-artifact cleanup script                         *)
(***************************************************************************)
\* The size threshold the operator gave on a command line: the value of
\* the size option, and MAX_SIZE's default when the option is not there.
RequestedSize(args) ==
    IF \E i \in 1..(Len(args) - 1) : args[i] = "-s"
    THEN args[(CHOOSE i \in 1..(Len(args) - 1) : args[i] = "-s") + 1]
    ELSE DefaultMaxSize

\* A file satisfies the predicate of a threshold: its name matches
\* product-*.jpg and its size is within the threshold.
SatisfiesPredicate(p, file, maxSize) ==
    MatchesPattern(p) /\ file.size <= Units(maxSize) * KiB

\* C19: a force run followed at once by a dry run with the same size
\* threshold, no file added in between (AddFile forgets the last run),
\* makes the dry run report zero remaining matches.
C19_ForceThenDryRunReportsZero ==
    [][(/\ cleanup.mode = "force_delete"
        /\ cleanup'.mode = "dry_run"
        /\ RequestedSize(cleanup'.args) = RequestedSize(cleanup.args))
          => cleanup'.FILE_COUNT = 0]_vars

\* C20: in every mode and for every size threshold, a step of the script
\* never deletes or modifies a file that does not satisfy the predicate of
\* the threshold the run was given.
C20_OnlyPredicateFilesTouched ==
    [][\A p \in Paths :
          (disk[p].exists /\ disk'[p] # disk[p])
              => SatisfiesPredicate(p, disk[p], RequestedSize(cleanup'.args))]_vars

\* The files the spec says a run with threshold maxSize selects: every
\* product-*.jpg file under the output tree of a size at or below it.
AtOrBelowThreshold(d, maxSize) ==
    {p \in Paths : /\ d[p].exists
                   /\ MatchesPattern(p)
                   /\ d[p].size <= Units(maxSize) * KiB}

\* A step in which the script scans the tree and lists what it selects.
Scans ==
    /\ ~prompt.asking
    /\ cleanup'.mode \in {"dry_run", "force_delete", "main"}

\* C21: with size threshold T (the default, or the value given with the
\* size option) the script selects every product-*.jpg file under the
\* output tree whose size is at or below T, a file of exactly T included,
\* and no file larger than T.
C21_SelectsAtOrBelowThreshold ==
    [][Scans => cleanup'.listed = AtOrBelowThreshold(disk, RequestedSize(cleanup'.args))]_vars

(***************************************************************************)
(* Properties of the person directory                                      *)
(***************************************************************************)
\* The container has run for the current URL.
DirectoryRendered == listView # NoListView

\* The offset a query asks for: a query without the parameter asks for 0.
RequestedOffset(query) == IF query.offset.sent THEN query.offset.n ELSE 0

\* C22: for every page number p >= 1 the directory requests exactly the
\* window of 20 persons starting at offset (p-1)*20, and whenever persons
\* are listed the summary line shows X = (p-1)*20+1 and Y = min(p*20, N)
\* for total count N.
C22_WindowAndSummaryOfPage ==
    (DirectoryRendered /\ location.page.kind = "int" /\ location.page.n >= 1)
        => LET p == location.page.n
           IN  /\ listRequest.limit = Sent(20)
               /\ RequestedOffset(listRequest) = (p - 1) * 20
               /\ listView.kind = "grid"
                    => /\ listView.startItem = Num((p - 1) * 20 + 1)
                       /\ listView.endItem =
                            Num(IF p * 20 < listView.totalCount
                                THEN p * 20 ELSE listView.totalCount)

\* C22 witness: page 3 of 45 persons is listed; the request asked for
\* offset 40 and the summary ends at the total count.
C22_Witness ==
    /\ listView.kind = "grid"
    /\ location.page = IntParam(3)
    /\ listView.totalCount = 45
    /\ listRequest.offset = Sent(40)
    /\ listView.endItem = Num(45)

\* C29: for every value of the page query parameter (absent, zero,
\* negative, non-numeric) the offset sent to the person-list endpoint is a
\* non-negative multiple of 20, or is omitted.
C29_OffsetNonNegativeMultipleOfTwenty ==
    DirectoryRendered
        => \/ ~listRequest.offset.sent
           \/ /\ listRequest.offset.n >= 0
              /\ listRequest.offset.n % 20 = 0

\* The person_id of the URL is missing, is no number, or is zero or negative.
MissingOrNonPositive(param) ==
    \/ param.kind \in {"absent", "empty", "junk"}
    \/ param.kind \in {"int", "intjunk"} /\ param.n <= 0

WinCount(table, p) ==
    IF RowsOf(table, p) = {} THEN 0
    ELSE table[CHOOSE i \in RowsOf(table, p) : TRUE].win_count

\* Every answered search has had its ledger write attempted.
LedgerQuiet == \A p \in Persons : pendingBumps[p] = 0

Swept == sweep.mode \in {"force", "interactive"}

\* C30: after a run in force or interactive mode, the numbers of deleted
\* and failed directories the script reports are the numbers of directories
\* it removed and failed to remove in that run.
C30_ReportedCountsAreActualCounts ==
    Swept =>
        /\ sweep.reportedDeleted = Cardinality(sweep.removed)
        /\ sweep.reportedFailed = Cardinality(sweep.failed)

====
